---------------------------- MODULE Spec2Model ----------------------------
(***************************************************************************)
(* A model of AI-Desktop-Assistant.py: the operation pipeline (worker      *)
(* threads, ProcessingDialog, the GLib idle queue of the GTK main thread), *)
(* the two LLM invocation modes and the global hotkey manager.             *)
(*                                                                         *)
(* Python strings are modelled as sequences of symbols; f-string embedding *)
(* and += are sequence concatenation.  A Python value that may be None is  *)
(* a record [t, s]: t = "None" or t = "str" with s the string.             *)
(***************************************************************************)
EXTENDS Integers, Sequences, FiniteSets, TLC

\* ------------------------------------------------------------------ bounds
MaxRuns == 2

Runs == 1..MaxRuns

\* ------------------------------------------------------------ Python values
PyNone == [t |-> "None", s |-> <<>>]
PyStr(s) == [t |-> "str", s |-> s]

\* bool(v) as used by `... and result`: None and "" are falsy.
Truthy(v) == v.t = "str" /\ v.s # <<>>

\* f"{v}": str(None) is "None", a string is embedded as it is.
Format(v) == IF v.t = "None" THEN <<"N", "o", "n", "e">> ELSE v.s

\* ------------------------------------------------------------ configuration
ConfigDefaults ==
  [ api_url            |-> "https://nano-gpt.com/api/v1/chat/completions",
    api_key            |-> "Enter Key",
    default_language   |-> "English",
    text_model         |-> "deepseek-ai/deepseek-v3.2-exp",
    premium_text_model |-> "gpt-5-chat-latest",
    vision_model       |-> "zai-org/GLM-4.5V-FP8",
    ocr_model          |-> "zai-org/GLM-4.5V-FP8",
    use_premium        |-> FALSE ]

get_active_text_model(cfg) ==
  IF cfg.use_premium THEN cfg.premium_text_model ELSE cfg.text_model

\* ---------------------------------------------------------------- operations
TextOps  == {"translate_text", "explain_text", "query_text"}
ImageOps == {"ocr_translate", "explain_image", "ocr_explain", "query_image"}
Ops      == TextOps \cup ImageOps

\* The stage calls of each operation's process(), in program order.
StageList(o) ==
  CASE o = "translate_text" -> <<"translate">>
    [] o = "explain_text"   -> <<"explain">>
    [] o = "query_text"     -> <<"query_text">>
    [] o = "ocr_translate"  -> <<"ocr", "ocr_translate">>
    [] o = "explain_image"  -> <<"explain_image">>
    [] o = "ocr_explain"    -> <<"ocr", "ocr_explain">>
    [] o = "query_image"    -> <<"ocr", "vision", "combine">>

\* call_llm (buffered) stages; every other stage is call_llm_streaming.
BufferedStages == {"ocr", "vision", "explain_image"}
IsBuffered(k) == k \in BufferedStages

\* Title passed to show_result.
ResultTitle(o) ==
  CASE o = "translate_text" -> "Translation"
    [] o = "explain_text"   -> "Explanation"
    [] o = "query_text"     -> "Query Result"
    [] o = "ocr_translate"  -> "OCR + Translation"
    [] o = "explain_image"  -> "Image Analysis"
    [] o = "ocr_explain"    -> "OCR + Explanation"
    [] o = "query_image"    -> "Query Result"

\* The update_status message the worker marshals before stage number i.
StageStatus(o, i) ==
  CASE o = "explain_image"       -> <<"Analyzing image...">>
    [] o = "ocr_translate" /\ i = 2 -> <<"Translating text...">>
    [] o = "ocr_explain" /\ i = 2   -> <<"Generating explanation...">>
    [] o = "query_image" /\ i = 2   -> <<"Analyzing image visually...">>
    [] o = "query_image" /\ i = 3   -> <<"Generating answer...">>
    [] OTHER                        -> <<"Extracting text from image...">>

\* ------------------------------------------------------------------ prompts
IsSpace(c) == c \in {" ", "\n", "\t"}

RECURSIVE LStrip(_)
LStrip(s) == IF s # <<>> /\ IsSpace(Head(s)) THEN LStrip(Tail(s)) ELSE s

RECURSIVE RStrip(_)
RStrip(s) ==
  IF s # <<>> /\ IsSpace(s[Len(s)]) THEN RStrip(SubSeq(s, 1, Len(s) - 1)) ELSE s

\* A variant that strips surrounding whitespace from the embedded text.
MutEmbedStripped(v) == RStrip(LStrip(Format(v)))

\* {ocr_result} / {vision_result} inside the f-string of the next stage.
Embed(v) == Format(v)

\* messages[0]["content"] built by process() for stage kind k of operation o:
\* inp is the run's captured input, outs the values returned by its earlier
\* stage calls (ocr_result, vision_result).
Prompt(o, k, cfg, inp, outs) ==
  CASE k = "translate" ->
         <<"Translate the following text to ", cfg.default_language,
           ". Respond in Markdown format. Only provide the translation, no explanations:\n\n">>
         \o inp.text
    [] k = "explain" ->
         <<"Provide more information and context about the following text. Respond in ",
           cfg.default_language, " using Markdown format:\n\n">>
         \o inp.text
    [] k = "query_text" ->
         <<"Here is some text that the user has provided:\n\nTEXT:\n">>
         \o inp.text \o <<"\n\nUSER'S QUESTION:\n">> \o inp.query
         \o <<"\n\nPlease answer the user's question based on the provided text. Respond in ",
              cfg.default_language, " using Markdown format.">>
    [] k = "ocr" ->
         IF o = "ocr_translate"
         THEN <<"Extract all text from this image. Only provide the extracted text, no explanations.">>
         ELSE IF o = "ocr_explain"
         THEN <<"Extract all text from this image. Only provide the extracted text.">>
         ELSE <<"Extract all text from this image. Only provide the extracted text, no explanations. If there is no text, respond with 'No text found'.">>
    [] k = "ocr_translate" ->
         <<"Translate the following text to ", cfg.default_language,
           ". Respond in Markdown format. Only provide the translation:\n\n">>
         \o Embed(outs[1])
    [] k = "ocr_explain" ->
         <<"Provide more information and context about the following text. Respond in ",
           cfg.default_language, " using Markdown format:\n\n">>
         \o Embed(outs[1])
    [] k = "vision" ->
         <<"Describe what you see in this image in detail. Focus on the main elements, layout, and visual characteristics.">>
    [] k = "explain_image" ->
         <<"Describe and explain what you see in this image. Provide detailed information. Respond in ",
           cfg.default_language, " using Markdown format.">>
    [] k = "combine" ->
         <<"You are analyzing an image for a user. Here is the information extracted from the image:\n\nTEXT EXTRACTED FROM IMAGE:\n">>
         \o Embed(outs[1])
         \o <<"\n\nVISUAL DESCRIPTION OF IMAGE:\n">>
         \o Embed(outs[2])
         \o <<"\n\nUSER'S QUESTION:\n">>
         \o inp.query
         \o <<"\n\nPlease answer the user's question based on both the extracted text and visual description of the image. Respond in ",
              cfg.default_language, " using Markdown format.">>

\* The model argument of the stage call.
StageModel(k, cfg) ==
  CASE k = "ocr" -> cfg.ocr_model
    [] k \in {"vision", "explain_image"} -> cfg.vision_model
    [] OTHER -> get_active_text_model(cfg)

\* A part of a list-valued message content.
Part(type, value) == [type |-> type, value |-> value]

\* messages[0]["content"] as a string, and as a list of parts.
StrContent(text) == [t |-> "str", s |-> text, parts |-> <<>>]
ListContent(parts) == [t |-> "list", s |-> <<>>, parts |-> parts]

\* A variant that puts the image part first.
MutPrepareImageFirst(content, image_base64) ==
  IF Truthy(image_base64)
  THEN ListContent(<< Part("image_url", <<"data:image/png;base64,">> \o image_base64.s),
                      Part("text", content) >>)
  ELSE StrContent(content)

\* call_llm, "# Prepare messages": with an image the content of the first
\* message becomes a text part followed by an image_url part; image_base64
\* is None or a str, and `if image_base64:` is its truth value.
PrepareMessages(content, image_base64) ==
  IF Truthy(image_base64)
  THEN ListContent(<< Part("text", content),
                      Part("image_url", <<"data:image/png;base64,">> \o image_base64.s) >>)
  ELSE StrContent(content)

\* The image_base64 argument of a stage call: process() passes img_base64
\* to call_llm; call_llm_streaming is passed None and leaves the messages
\* as they are.
ImageArgument(k, inp) == IF IsBuffered(k) THEN PyStr(inp.image) ELSE PyNone

\* The request handed to requests.post by call_llm / call_llm_streaming.
\* Buffered stages carry the base64 image, streaming stages pass None.
Request(o, k, cfg, inp, outs) ==
  [ url     |-> cfg.api_url,
    key     |-> cfg.api_key,
    stage   |-> k,
    stream  |-> ~IsBuffered(k),
    model   |-> StageModel(k, cfg),
    content |-> Prompt(o, k, cfg, inp, outs),
    image   |-> IF IsBuffered(k) THEN inp.image ELSE <<>>,
    message |-> IF IsBuffered(k)
                THEN PrepareMessages(Prompt(o, k, cfg, inp, outs), ImageArgument(k, inp))
                ELSE StrContent(Prompt(o, k, cfg, inp, outs)) ]

\* ------------------------------------------------------- call_llm (buffered)
\* except Exception as e: return f"Error: {str(e)}"
BufferedError(e) == PyStr(<<"Error: ", e>>)

\* ------------------------------------------------ call_llm_streaming (lines)
\* One line of response.iter_lines(), by the shape the parser distinguishes:
\*   blank      b""                                  (if line: is false)
\*   other      a line not starting with "data: "
\*   done       data: [DONE]
\*   badjson    data: <not JSON>                     (JSONDecodeError: pass)
\*   nochoices  data: {} or {"choices": []}
\*   data       data: {"choices":[{"delta":{"content": c}}]}
\*   nulldelta  data: {"choices":[{"delta": null}]} (AttributeError on .get)
Line(kind, c) == [kind |-> kind, content |-> c]
DataLine(c) == Line("data", c)
DoneLine == Line("done", <<>>)

\* A variant that puts each fragment in front of the accumulated text.
MutStreamLinePrepend(acc, line) ==
  IF line.kind = "done"
  THEN [acc |-> acc, ctl |-> "break", upd |-> FALSE]
  ELSE IF line.kind = "data" /\ line.content # <<>>
  THEN [acc |-> line.content \o acc, ctl |-> "next", upd |-> TRUE]
  ELSE IF line.kind = "nulldelta"
  THEN [acc |-> acc, ctl |-> "raise", upd |-> FALSE]
  ELSE [acc |-> acc, ctl |-> "next", upd |-> FALSE]

\* The body of the for loop (lines 1024-1040) on one line, the cancellation
\* check excluded: the new result_text, how the loop continues, and whether a
\* progress update is marshaled.
StreamLine(acc, line) ==
  IF line.kind = "done"
  THEN [acc |-> acc, ctl |-> "break", upd |-> FALSE]
  ELSE IF line.kind = "data" /\ line.content # <<>>
  THEN [acc |-> acc \o line.content, ctl |-> "next", upd |-> TRUE]
  ELSE IF line.kind = "nulldelta"
  THEN [acc |-> acc, ctl |-> "raise", upd |-> FALSE]
  ELSE [acc |-> acc, ctl |-> "next", upd |-> FALSE]

\* return result_text if result_text else "No response received"
FinishStream(acc) ==
  IF acc # <<>> THEN PyStr(acc) ELSE PyStr(<<"No response received">>)

\* except requests.exceptions.Timeout / except Exception as e
StreamError(e) ==
  IF e = "Timeout" THEN PyStr(<<"Error: Connection timeout">>)
  ELSE PyStr(<<"Error: ", e>>)

\* f"Receiving response... ({len(result_text)} chars)"
ReceivingStatus(acc) == <<"Receiving response... (", ToString(Len(acc)), " chars)">>

\* ------------------------------------------------------------ environment
\* What the endpoint and the user can supply, as small sets.
Hello == <<"h", "e", "l", "l", "o">>
Padded == <<" ", "x", "\n">>

\* choices[0].message.content of a buffered response that parses.
ReplyTexts == {<<>>, Hello, Padded}

\* Exceptions raised inside the try block of either call mode: a transport
\* timeout, a non-success status (raise_for_status), a malformed body.
Exceptions == {"Timeout", "HTTPError", "KeyError"}

\* What result['choices'][0]['message']['content'] evaluates to when the
\* body has that path: a string, or None when the body carries null there.
BufferedContents == {PyStr(t) : t \in ReplyTexts} \cup {PyNone}

\* What can be raised inside the try block of the two call modes; each is a
\* subclass of Exception.  AttributeError is what delta.get raises on a frame
\* whose delta is null.
ExceptionSubclasses == Exceptions \cup {"AttributeError"}

\* A variant with the Timeout clause only.
MutCatchesTimeoutOnly(e) == e = "Timeout"

\* The except clauses that end the try block of call_llm and of
\* call_llm_streaming: whether an exception e raised inside it is caught.
Catches(e) == e \in ExceptionSubclasses

\* What the user can leave in the question field of a query dialog.
TypedQueries == {<<>>, <<" ", "\n">>, <<" ", "w", "h", "y", "?", "\n">>}

\* The radio button active at Submit: TextQueryDialog offers presets and
\* the custom field, ImageQueryDialog has the field only, the other dialogs
\* ask no question.
QueryChoices(o) ==
  CASE o = "query_text"  -> {"summarize", "custom"}
    [] o = "query_image" -> {"custom"}
    [] OTHER             -> {"none"}

\* on_submit: the query handed to the callback.
QueryOf(choice, typed) ==
  CASE choice = "summarize" -> <<"Summarize the provided text.">>
    [] choice = "custom"    -> RStrip(LStrip(typed))
    [] OTHER                -> <<>>

\* A variant that accepts every question.
MutQueryRejectedNever(choice, typed) == FALSE

\* on_submit: `if not query:` / `if user_query: ... else:` on the stripped
\* text of the field.
QueryRejected(choice, typed) == choice = "custom" /\ QueryOf(choice, typed) = <<>>

\* The queries a Submit of the input dialog of o hands to its callback.
SubmittedQueries(o) ==
  { QueryOf(c, t) : <<c, t>> \in
      {ct \in QueryChoices(o) \X TypedQueries : ~QueryRejected(ct[1], ct[2])} }

\* Clipboard text, user query and encoded screenshot of a run.
RunInputs(o) ==
  [ text  : IF o \in TextOps THEN {<<"c", "l", "i", "p">>} ELSE {<<>>},
    query : SubmittedQueries(o),
    image : IF o \in ImageOps THEN {<<"iVBORw0KGgo=">>} ELSE {<<>>} ]

NoInput == [text |-> <<>>, query |-> <<>>, image |-> <<>>]

\* A stub endpoint that echoes the text threaded into a streaming request,
\* prefixed with "T:" (the text is what follows the "\n\n" that ends the
\* ocr_translate / ocr_explain prompt: its fourth symbol onwards).
EchoStream(req) ==
  <<DataLine(<<"T", ":">>), DataLine(SubSeq(req.content, 4, Len(req.content))), DoneLine>>

EchoStreams(req) ==
  IF req.stage \in {"ocr_translate", "ocr_explain"} /\ Len(req.content) > 3
  THEN {EchoStream(req)} ELSE {}

\* The response streams the pipeline specification draws from (besides the
\* echo): an empty body, and two fragments followed by the end of the stream.
RunStreams == {<<>>, <<DataLine(<<"a", "b">>), DataLine(<<"c", "d">>)>>}

\* --------------------------------------------------------------------- state
VARIABLES
  config,       \* LLMAssistant.config (Config attributes)
  op,           \* op[r]: the operation of run r, "none" before it is created
  input,        \* input[r]: text / user_query / img_base64 captured for run r
  wpc,          \* wpc[r]: where run r's worker thread is in process()
  stage,        \* stage[r]: number of the stage call the worker is at
  cancelled,    \* ProcessingDialog.cancelled of run r
  dialog,       \* the ProcessingDialog window: "none", "open", "destroyed"
  status,       \* status_label text of run r's dialog
  idle,         \* GLib idle sources of the main context, in attach order
  out,          \* out[r]: values returned by the run's stage calls so far
  resp,         \* resp[r]: lines of the streaming response not yet iterated
  result_text,  \* result_text of the streaming call in progress
  posts,        \* history: requests.post calls issued for run r, in order
  sent,         \* history: the whole response stream of the last streaming call
  shown,        \* history: show_result executions for run r
  dispatched,   \* history: kinds of run r's tasks the main loop has executed
  marshaled,    \* history: kinds of the tasks worker r handed to GLib.idle_add
  preCancel,    \* history: cancelled as of the worker thread's first step
  retFlag,      \* history: cancelled as of the return of the final stage call
  app,          \* "new" (LLMAssistant() not yet built), "main" (Gtk.main), "quit"
  keymap,       \* the X server's keysym -> keycode table (keysym_to_keycode)
  hotkey_map,   \* HotkeyManager.hotkey_map: (keycode, modifiers) -> callback name
  grabs,        \* history: the grab_key requests sent, as (keycode, modifiers)
  running,      \* HotkeyManager.running
  lpc,          \* where the _event_loop thread is: "none", "outer", "inner", "exited"
  xqueue,       \* events the display connection holds, oldest first
  consumed,     \* history: events returned by next_event, in order
  invoked,      \* history: callback names the main loop has called, in order
  grabRaised,   \* index of the HOTKEYS entry whose grab_key raised, 0 when none did
  stagelog,     \* history: per returned stage call of run r, its fault and the flag
  confirm,      \* input dialogs awaiting the user, as operation names, oldest first
  oplog,        \* history: calls of the operation methods and what each did
  snapshot,     \* history: config as it was when run r was created
  selectors,    \* ScreenSelector overlays awaiting the user, as operation names
  shots,        \* the screenshots captured so far: operation, holder, closed or not
  uilog,        \* history: how the selectors and input dialogs were left
  calls,        \* history: direct applications of call_llm's message preparation
  hotkey_errors \* history: the "Hotkey error" lines printed by _event_loop

pipeVars == <<config, op, input, wpc, stage, cancelled, dialog, status, idle, out,
              resp, result_text, posts, sent, shown, dispatched, marshaled,
              preCancel, retFlag, stagelog, snapshot>>

hkFixed == <<app, keymap, hotkey_map, grabs, running, lpc, xqueue, consumed, grabRaised>>

hkVars == <<hkFixed, invoked>>

uiVars == <<confirm, oplog, selectors, shots, uilog>>

auxVars == <<calls, hotkey_errors>>

vars == <<pipeVars, hkVars, uiVars, auxVars>>

Task(kind, r, title, text) == [kind |-> kind, run |-> r, title |-> title, text |-> text]

\* sent[r] before / after a streaming response has arrived.
NoResponse == [got |-> FALSE, lines |-> <<>>]
Response(ls) == [got |-> TRUE, lines |-> ls]

InitRuns ==
  /\ config = ConfigDefaults
  /\ op = [r \in Runs |-> "none"]
  /\ input = [r \in Runs |-> NoInput]
  /\ wpc = [r \in Runs |-> "none"]
  /\ stage = [r \in Runs |-> 0]
  /\ cancelled = [r \in Runs |-> FALSE]
  /\ dialog = [r \in Runs |-> "none"]
  /\ status = [r \in Runs |-> <<>>]
  /\ idle = <<>>
  /\ out = [r \in Runs |-> <<>>]
  /\ resp = [r \in Runs |-> <<>>]
  /\ result_text = [r \in Runs |-> <<>>]
  /\ posts = [r \in Runs |-> <<>>]
  /\ sent = [r \in Runs |-> NoResponse]
  /\ shown = [r \in Runs |-> <<>>]
  /\ dispatched = [r \in Runs |-> <<>>]
  /\ marshaled = [r \in Runs |-> <<>>]
  /\ preCancel = [r \in Runs |-> "unset"]
  /\ retFlag = [r \in Runs |-> "unset"]
  /\ stagelog = [r \in Runs |-> <<>>]
  /\ snapshot = [r \in Runs |-> ConfigDefaults]
  /\ calls = <<>>
  /\ hotkey_errors = <<>>

InitUi ==
  /\ confirm = <<>>
  /\ oplog = <<>>
  /\ selectors = <<>>
  /\ shots = <<>>
  /\ uilog = <<>>

InitPipe == InitRuns /\ InitUi

Flag(b) == IF b THEN "set" ELSE "clear"

\* The stage call of run r has returned value v after fault f ("ok": none).
StageReturns(r, f, v) ==
  /\ out' = [out EXCEPT ![r] = Append(@, v)]
  /\ stagelog' = [stagelog EXCEPT ![r] =
                    Append(@, [fault |-> f, flag |-> Flag(cancelled[r])])]

\* An exception left the stage call: it ends process() and the thread.
StageRaises(r) ==
  /\ wpc' = [wpc EXCEPT ![r] = "raised"]
  /\ UNCHANGED <<out, stagelog>>


NStages(r) == Len(StageList(op[r]))
StageKind(r) == StageList(op[r])[stage[r]]

\* GLib.idle_add(f, ...) from run r's worker thread.
IdleAdd(r, task) ==
  /\ idle' = Append(idle, task)
  /\ marshaled' = [marshaled EXCEPT ![r] = Append(@, task.kind)]

\* ------------------------------------- presentation context: the operations
MaxTriggers == 1

\* content_type of get_clipboard_text: "text" when wait_for_text returns a
\* string, else what the clipboard offers instead.
ClipboardKinds == {"text", "image", "file", "empty"}

\* What an operation method finds: the text operations read the clipboard,
\* the image operations do not.
ClipKindsFor(o) == IF o \in TextOps THEN ClipboardKinds ELSE {"unread"}

\* The message of show_notification for a clipboard without text.
ClipboardNote(content_type) ==
  CASE content_type = "image" -> "Clipboard contains an image, not text"
    [] content_type = "file"  -> "Clipboard contains a file, not text"
    [] OTHER                  -> "Clipboard does not contain text"

\* A variant without the content_type test.
MutTextOperationNoCheck(content_type) == [note |-> "", opens |-> TRUE]

\* translate_text / explain_text / query_text after get_clipboard_text: the
\* notification shown ("" for none) and whether the input dialog
\* (ClipboardConfirmDialog, TextQueryDialog) is opened.
TextOperation(content_type) ==
  IF content_type # "text"
  THEN [note |-> ClipboardNote(content_type), opens |-> FALSE]
  ELSE [note |-> "", opens |-> TRUE]

\* ocr_translate / explain_image / ocr_explain / query_image: the
\* notification, and the ScreenSelector overlay that is opened.
ImageOperation == [note |-> "Select screen area...", opens |-> TRUE]

\* A call of operation method o in the presentation context: a text
\* operation opens its input dialog, an image operation its selector.
OperationCall(o, content_type) ==
  LET res == IF o \in TextOps THEN TextOperation(content_type) ELSE ImageOperation IN
    /\ confirm' = IF o \in TextOps /\ res.opens THEN Append(confirm, o) ELSE confirm
    /\ selectors' = IF o \in ImageOps /\ res.opens THEN Append(selectors, o) ELSE selectors
    /\ oplog' = Append(oplog, [op |-> o, clip |-> content_type,
                                note |-> res.note, opens |-> res.opens])
    /\ UNCHANGED <<shots, uilog>>

RemoveAt(q, i) == SubSeq(q, 1, i - 1) \o SubSeq(q, i + 1, Len(q))

\* A variant in which process() is called in the thread that creates the run.
MutProcessInMain == "main"

\* threading.Thread(target=process, daemon=True).start(): the thread in
\* which process(), and with it every stage call, is executed.
ProcessContext == "worker"

\* The GTK main thread is in its main loop, not inside a call of process().
MainFree ==
  ProcessContext = "worker" \/ \A r \in Runs : wpc[r] \in {"none", "done", "raised", "killed"}

\* A menu item of the tray menu is activated: lambda w: self.<operation>().
MenuActivate(o) ==
  /\ app = "main"
  /\ MainFree
  /\ Len(oplog) < MaxTriggers
  /\ \E ct \in ClipKindsFor(o) : OperationCall(o, ct)
  /\ UNCHANGED <<pipeVars, hkVars>>
  /\ UNCHANGED auxVars

\* Width and height of the selections a user releases.
SelectionSizes == {<<10, 50>>, <<50, 10>>, <<11, 11>>}

\* A variant without the minimum size.
MutSelectionAcceptedAny(w, h) == TRUE

\* if w > 10 and h > 10:  # Minimum size
SelectionAccepted(w, h) == w > 10 /\ h > 10

UiEvent(kind, o, size) == [kind |-> kind, op |-> o, size |-> size]

\* ScreenSelector.on_button_release: the overlay is destroyed; a selection
\* of more than the minimum size is captured (ImageGrab.grab) and shown in
\* a ScreenshotConfirmDialog, or for query_image an ImageQueryDialog.
SelectorRelease(i, size) ==
  /\ app = "main"
  /\ MainFree
  /\ i \in 1..Len(selectors)
  /\ selectors' = RemoveAt(selectors, i)
  /\ IF SelectionAccepted(size[1], size[2])
     THEN /\ confirm' = Append(confirm, selectors[i])
          /\ shots' = Append(shots, [op |-> selectors[i], owner |-> "dialog",
                                     closed |-> FALSE])
     ELSE UNCHANGED <<confirm, shots>>
  /\ uilog' = Append(uilog, UiEvent("release", selectors[i], size))
  /\ UNCHANGED oplog
  /\ UNCHANGED <<pipeVars, hkVars>>
  /\ UNCHANGED auxVars

\* ScreenSelector.on_key_press with Escape: self.destroy().
SelectorEscape(i) ==
  /\ app = "main"
  /\ MainFree
  /\ i \in 1..Len(selectors)
  /\ selectors' = RemoveAt(selectors, i)
  /\ uilog' = Append(uilog, UiEvent("escape", selectors[i], <<0, 0>>))
  /\ UNCHANGED <<confirm, oplog, shots>>
  /\ UNCHANGED <<pipeVars, hkVars>>
  /\ UNCHANGED auxVars

\* The oldest screenshot of operation o that an input dialog holds.
HeldShot(o) ==
  CHOOSE k \in 1..Len(shots) :
    /\ shots[k].op = o /\ shots[k].owner = "dialog"
    /\ \A j \in 1..(k - 1) : ~(shots[j].op = o /\ shots[j].owner = "dialog")

\* The dialog or callback that held the screenshot of o is done with it.
ReleaseShot(o, closed) ==
  IF o \in ImageOps
  THEN [shots EXCEPT ![HeldShot(o)] = [op |-> o, owner |-> "ended", closed |-> closed]]
  ELSE shots

\* What the Cancel button of the input dialog of o does to the screenshot:
\* ScreenshotConfirmDialog.on_cancel closes it, the Cancel button of
\* ImageQueryDialog is lambda w: self.destroy().
CancelClosesShot(o) == o # "query_image"

\* The Cancel button of an input dialog.
ConfirmCancel(i) ==
  /\ app = "main"
  /\ MainFree
  /\ i \in 1..Len(confirm)
  /\ confirm' = RemoveAt(confirm, i)
  /\ shots' = ReleaseShot(confirm[i], CancelClosesShot(confirm[i]))
  /\ uilog' = Append(uilog, UiEvent("cancel", confirm[i], <<0, 0>>))
  /\ UNCHANGED <<oplog, selectors>>
  /\ UNCHANGED <<pipeVars, hkVars>>
  /\ UNCHANGED auxVars

\* The warnings a user lets the query dialogs show.
MaxWarnings == 1

\* Submit of a query dialog whose question is empty after stripping: a
\* warning MessageDialog is run and on_submit returns; the dialog stays.
SubmitRejected(i) ==
  /\ app = "main"
  /\ MainFree
  /\ i \in 1..Len(confirm)
  /\ \E c \in QueryChoices(confirm[i]), t \in TypedQueries : QueryRejected(c, t)
  /\ Cardinality({k \in 1..Len(uilog) : uilog[k].kind = "warning"}) < MaxWarnings
  /\ uilog' = Append(uilog, UiEvent("warning", confirm[i], <<0, 0>>))
  /\ UNCHANGED <<confirm, oplog, selectors, shots>>
  /\ UNCHANGED <<pipeVars, hkVars>>
  /\ UNCHANGED auxVars

\* ------------------------------------------ presentation context: settings
\* What the user can leave in the settings dialog.
SettingsEdits(cfg) ==
  { [cfg EXCEPT !.default_language = "German", !.api_key = "sk-new"],
    [cfg EXCEPT !.default_language = "English", !.api_key = "Enter Key"] }

\* LLMAssistant.toggle_premium_model: the check menu item was toggled.
toggle_premium_model ==
  /\ app = "main"
  /\ MainFree
  /\ config' = [config EXCEPT !.use_premium = ~@]
  /\ UNCHANGED <<snapshot, stagelog, op, input, wpc, stage, cancelled, dialog, status,
                 idle, out, resp, result_text, posts, sent, shown, dispatched,
                 marshaled, preCancel, retFlag>>
  /\ UNCHANGED <<hkVars, uiVars>>
  /\ UNCHANGED auxVars

\* LLMAssistant.show_settings answered with OK: setattr for every value.
show_settings ==
  /\ app = "main"
  /\ MainFree
  /\ \E values \in SettingsEdits(config) : config' = values
  /\ UNCHANGED <<snapshot, stagelog, op, input, wpc, stage, cancelled, dialog, status,
                 idle, out, resp, result_text, posts, sent, shown, dispatched,
                 marshaled, preCancel, retFlag>>
  /\ UNCHANGED <<hkVars, uiVars>>
  /\ UNCHANGED auxVars

\* ------------------------------------------------ presentation context: runs
\* The Submit button of an input dialog of operation o (on_submit: the
\* dialog is destroyed and its callback called), then _process_translate /
\* _process_explain / _process_query_text / _ocr_translate_callback /
\* _explain_image_callback / _ocr_explain_callback / _process_query_image up
\* to threading.Thread(...).start(): a ProcessingDialog is created
\* (cancelled = False, window shown, label "Processing..."), a screenshot is
\* encoded and closed, and the worker thread is started.  Runs are numbered
\* in creation order.
CreateRun(r, o) ==
  /\ app = "main"
  /\ MainFree
  /\ \E i \in 1..Len(confirm) :
       /\ confirm[i] = o
       /\ \A j \in 1..(i - 1) : confirm[j] # o
       /\ confirm' = RemoveAt(confirm, i)
  /\ shots' = ReleaseShot(o, TRUE)
  /\ uilog' = Append(uilog, UiEvent("submit", o, <<0, 0>>))
  /\ UNCHANGED <<oplog, selectors>>
  /\ op[r] = "none"
  /\ \A q \in Runs : q < r => op[q] # "none"
  /\ \E inp \in RunInputs(o) : input' = [input EXCEPT ![r] = inp]
  /\ op' = [op EXCEPT ![r] = o]
  /\ snapshot' = [snapshot EXCEPT ![r] = config]
  /\ dialog' = [dialog EXCEPT ![r] = "open"]
  /\ cancelled' = [cancelled EXCEPT ![r] = FALSE]
  /\ status' = [status EXCEPT ![r] = <<"Processing...">>]
  /\ wpc' = [wpc EXCEPT ![r] = "start"]
  /\ stage' = [stage EXCEPT ![r] = 1]
  /\ UNCHANGED <<config, stagelog, idle, out, resp, result_text, posts, sent, shown, dispatched,
                 marshaled, preCancel, retFlag>>
  /\ UNCHANGED hkVars
  /\ UNCHANGED auxVars

\* A variant with one flag for all runs.
MutOnCancelSharedFlag(r) ==
  /\ app = "main"
  /\ MainFree
  /\ dialog[r] = "open"
  /\ cancelled' = [q \in Runs |-> TRUE]
  /\ dialog' = [dialog EXCEPT ![r] = "destroyed"]
  /\ UNCHANGED <<config, snapshot, stagelog, op, input, wpc, stage, status, idle, out,
                 resp, result_text, posts, sent, shown, dispatched, marshaled,
                 preCancel, retFlag>>
  /\ UNCHANGED <<hkVars, uiVars>>
  /\ UNCHANGED auxVars

\* ProcessingDialog.on_cancel: the Cancel button exists while the window does.
on_cancel(r) ==
  /\ app = "main"
  /\ MainFree
  /\ dialog[r] = "open"
  /\ cancelled' = [cancelled EXCEPT ![r] = TRUE]
  /\ dialog' = [dialog EXCEPT ![r] = "destroyed"]
  /\ UNCHANGED <<config, snapshot, stagelog, op, input, wpc, stage, status, idle, out, resp,
                 result_text, posts, sent, shown, dispatched, marshaled, preCancel, retFlag>>
  /\ UNCHANGED <<hkVars, uiVars>>
  /\ UNCHANGED auxVars

\* The value a marshaled callable hands back to GLib: every one of them
\* (the seven operation methods, update_status, destroy, show_result) returns
\* None, so GLib removes its source after one call.
MutSourceContinueCallback(t) == t.kind = "callback"

SourceContinue(t) == FALSE

\* One iteration of the GTK main loop dispatching the oldest idle source:
\* update_status sets the label text, destroy destroys the window,
\* show_result opens a result window with the text, a hotkey callback is the
\* operation method itself.  A source whose callable returns a true value
\* stays attached and is dispatched again.
IdleDispatch ==
  /\ app = "main"
  /\ MainFree
  /\ idle # <<>>
  /\ LET t == Head(idle) IN
       /\ idle' = IF SourceContinue(t) THEN Append(Tail(idle), t) ELSE Tail(idle)
       /\ invoked' = IF t.kind = "callback" THEN Append(invoked, t.title)
                     ELSE invoked
       /\ status' = IF t.kind = "update_status"
                    THEN [status EXCEPT ![t.run] = t.text] ELSE status
       /\ dialog' = IF t.kind = "destroy"
                    THEN [dialog EXCEPT ![t.run] = "destroyed"] ELSE dialog
       /\ shown' = IF t.kind = "show_result"
                   THEN [shown EXCEPT ![t.run] =
                           Append(@, [title |-> t.title, text |-> t.text,
                                      cancelled |-> cancelled[t.run]])]
                   ELSE shown
       /\ dispatched' = IF t.run \in Runs
                        THEN [dispatched EXCEPT ![t.run] = Append(@, t.kind)]
                        ELSE dispatched
       /\ IF t.kind = "callback"
          THEN \E ct \in ClipKindsFor(t.title) : OperationCall(t.title, ct)
          ELSE UNCHANGED uiVars
  /\ UNCHANGED <<config, snapshot, stagelog, op, input, wpc, stage, cancelled, out, resp,
                 result_text, posts, sent, marshaled, preCancel, retFlag>>
  /\ UNCHANGED hkFixed
  /\ UNCHANGED auxVars

\* ------------------------------------------------------------ worker thread
\* The thread begins process().  Image operations first marshal the status
\* of their first stage; text operations build their messages.
WorkerStart(r) ==
  /\ wpc[r] = "start"
  /\ preCancel' = [preCancel EXCEPT ![r] = Flag(cancelled[r])]
  /\ IF op[r] \in ImageOps
     THEN /\ IdleAdd(r, Task("update_status", r, "", StageStatus(op[r], 1)))
          /\ wpc' = [wpc EXCEPT ![r] = "precheck"]
     ELSE /\ wpc' = [wpc EXCEPT ![r] = "post"]
          /\ UNCHANGED <<idle, marshaled>>
  /\ UNCHANGED <<config, snapshot, stagelog, op, input, stage, cancelled, dialog, status, out, resp,
                 result_text, posts, sent, shown, dispatched, retFlag>>
  /\ UNCHANGED <<hkVars, uiVars>>
  /\ UNCHANGED auxVars

\* if progress_dialog.cancelled: GLib.idle_add(progress_dialog.destroy); return
\* (the check before the first call_llm of an image operation)
WorkerPrecheck(r) ==
  /\ wpc[r] = "precheck"
  /\ IF cancelled[r]
     THEN /\ IdleAdd(r, Task("destroy", r, "", <<>>))
          /\ wpc' = [wpc EXCEPT ![r] = "done"]
     ELSE /\ wpc' = [wpc EXCEPT ![r] = "post"]
          /\ UNCHANGED <<idle, marshaled>>
  /\ UNCHANGED <<config, snapshot, stagelog, op, input, stage, cancelled, dialog, status, out, resp,
                 result_text, posts, sent, shown, dispatched, preCancel, retFlag>>
  /\ UNCHANGED <<hkVars, uiVars>>
  /\ UNCHANGED auxVars

\* requests.post of the current stage.  A buffered call is then in flight.
\* A streaming call either raises before iteration (the function returns its
\* error string) or yields a response whose lines are iterated next.
WorkerPost(r, Streams) ==
  /\ wpc[r] = "post"
  /\ LET req == Request(op[r], StageKind(r), config, input[r], out[r]) IN
       /\ posts' = [posts EXCEPT ![r] = Append(@, req)]
       /\ IF ~req.stream
          THEN /\ wpc' = [wpc EXCEPT ![r] = "wait"]
               /\ UNCHANGED <<out, stagelog, resp, result_text, sent, retFlag>>
          ELSE \/ \E e \in Exceptions :
                    /\ IF Catches(e)
                       THEN /\ StageReturns(r, e, StreamError(e))
                            /\ retFlag' = [retFlag EXCEPT ![r] = Flag(cancelled[r])]
                            /\ wpc' = [wpc EXCEPT ![r] = "final"]
                       ELSE /\ StageRaises(r)
                            /\ UNCHANGED retFlag
                    /\ UNCHANGED <<resp, result_text, sent>>
               \/ \E ls \in Streams \cup EchoStreams(req) :
                    /\ resp' = [resp EXCEPT ![r] = ls]
                    /\ sent' = [sent EXCEPT ![r] = Response(ls)]
                    /\ result_text' = [result_text EXCEPT ![r] = <<>>]
                    /\ wpc' = [wpc EXCEPT ![r] = "stream"]
                    /\ UNCHANGED <<out, stagelog, retFlag>>
  /\ UNCHANGED <<config, snapshot, op, input, stage, cancelled, dialog, status, idle,
                 shown, dispatched, marshaled, preCancel>>
  /\ UNCHANGED <<hkVars, uiVars>>
  /\ UNCHANGED auxVars

\* call_llm comes back: with the content of the response, or, when
\* requests.post, raise_for_status, response.json() or the indexing raised,
\* with the error string built by the except clause.
WorkerReturn(r) ==
  /\ wpc[r] = "wait"
  /\ LET next == IF stage[r] = NStages(r) THEN "final" ELSE "check"
         returns(f, v) ==
           /\ StageReturns(r, f, v)
           /\ wpc' = [wpc EXCEPT ![r] = next]
           /\ retFlag' = IF next = "final"
                         THEN [retFlag EXCEPT ![r] = Flag(cancelled[r])]
                         ELSE retFlag
     IN
     \/ \E v \in BufferedContents : returns("ok", v)
     \/ \E e \in Exceptions :
          IF Catches(e) THEN returns(e, BufferedError(e))
          ELSE StageRaises(r) /\ UNCHANGED retFlag
  /\ UNCHANGED <<config, snapshot, op, input, stage, cancelled, dialog, status, idle, resp,
                 result_text, posts, sent, shown, dispatched, marshaled, preCancel>>
  /\ UNCHANGED <<hkVars, uiVars>>
  /\ UNCHANGED auxVars

\* A variant that goes on to the next stage whatever the flag is.
MutWorkerCheckIgnoresFlag(r) ==
  /\ wpc[r] = "check"
  /\ wpc' = [wpc EXCEPT ![r] = "status"]
  /\ UNCHANGED <<config, snapshot, stagelog, op, input, stage, cancelled, dialog, status, idle,
                 marshaled, out, resp, result_text, posts, sent, shown, dispatched,
                 preCancel, retFlag>>
  /\ UNCHANGED <<hkVars, uiVars>>
  /\ UNCHANGED auxVars

\* if progress_dialog.cancelled: GLib.idle_add(progress_dialog.destroy); return
\* (the check after a call_llm that is not the last stage)
WorkerCheck(r) ==
  /\ wpc[r] = "check"
  /\ IF cancelled[r]
     THEN /\ IdleAdd(r, Task("destroy", r, "", <<>>))
          /\ wpc' = [wpc EXCEPT ![r] = "done"]
     ELSE /\ wpc' = [wpc EXCEPT ![r] = "status"]
          /\ UNCHANGED <<idle, marshaled>>
  /\ UNCHANGED <<config, snapshot, stagelog, op, input, stage, cancelled, dialog, status, out, resp,
                 result_text, posts, sent, shown, dispatched, preCancel, retFlag>>
  /\ UNCHANGED <<hkVars, uiVars>>
  /\ UNCHANGED auxVars

\* A variant that sets the label from the worker thread.
MutWorkerStatusDirect(r) ==
  /\ wpc[r] = "status"
  /\ status' = [status EXCEPT ![r] = StageStatus(op[r], stage[r] + 1)]
  /\ stage' = [stage EXCEPT ![r] = @ + 1]
  /\ wpc' = [wpc EXCEPT ![r] = "post"]
  /\ UNCHANGED <<config, snapshot, stagelog, op, input, cancelled, dialog, idle, marshaled, out,
                 resp, result_text, posts, sent, shown, dispatched, preCancel, retFlag>>
  /\ UNCHANGED <<hkVars, uiVars>>
  /\ UNCHANGED auxVars

\* A variant that calls the stage it has just called once more.
MutWorkerStatusRepeats(r) ==
  /\ wpc[r] = "status"
  /\ IdleAdd(r, Task("update_status", r, "", StageStatus(op[r], stage[r] + 1)))
  /\ wpc' = [wpc EXCEPT ![r] = "post"]
  /\ UNCHANGED <<config, snapshot, stagelog, op, input, stage, cancelled, dialog, status,
                 out, resp, result_text, posts, sent, shown, dispatched, preCancel,
                 retFlag>>
  /\ UNCHANGED <<hkVars, uiVars>>
  /\ UNCHANGED auxVars

\* GLib.idle_add(progress_dialog.update_status, <status of the next stage>)
WorkerStatus(r) ==
  /\ wpc[r] = "status"
  /\ IdleAdd(r, Task("update_status", r, "", StageStatus(op[r], stage[r] + 1)))
  /\ stage' = [stage EXCEPT ![r] = @ + 1]
  /\ wpc' = [wpc EXCEPT ![r] = "post"]
  /\ UNCHANGED <<config, snapshot, stagelog, op, input, cancelled, dialog, status, out, resp,
                 result_text, posts, sent, shown, dispatched, preCancel, retFlag>>
  /\ UNCHANGED <<hkVars, uiVars>>
  /\ UNCHANGED auxVars

\* A variant that never looks at the flag.
MutAbandonsNever(r) == FALSE

\* if progress_dialog.cancelled: return None
AbandonsStream(r) == cancelled[r]

\* One iteration of `for line in response.iter_lines()`, or the end of the
\* iteration.  The flag is read once a line has arrived.
WorkerStreamLine(r) ==
  /\ wpc[r] = "stream"
  /\ LET ret(f, v) == /\ StageReturns(r, f, v)
                      /\ retFlag' = [retFlag EXCEPT ![r] = Flag(cancelled[r])]
                      /\ wpc' = [wpc EXCEPT ![r] = "final"]
                      /\ UNCHANGED <<resp, result_text, idle, marshaled>>
     IN
     IF resp[r] = <<>>
     THEN ret("ok", FinishStream(result_text[r]))
     ELSE IF AbandonsStream(r)
     THEN ret("ok", PyNone)
     ELSE LET s == StreamLine(result_text[r], Head(resp[r])) IN
          CASE s.ctl = "break" -> ret("ok", FinishStream(result_text[r]))
            [] s.ctl = "raise" ->
                 IF Catches("AttributeError")
                 THEN ret("AttributeError", StreamError("AttributeError"))
                 ELSE /\ StageRaises(r)
                      /\ UNCHANGED <<resp, result_text, idle, marshaled, retFlag>>
            [] OTHER ->
                 /\ result_text' = [result_text EXCEPT ![r] = s.acc]
                 /\ resp' = [resp EXCEPT ![r] = Tail(@)]
                 /\ IF s.upd
                    THEN IdleAdd(r, Task("update_status", r, "", ReceivingStatus(s.acc)))
                    ELSE UNCHANGED <<idle, marshaled>>
                 /\ UNCHANGED <<out, stagelog, retFlag, wpc>>
  /\ UNCHANGED <<config, snapshot, op, input, stage, cancelled, dialog, status, posts,
                 sent, shown, dispatched, preCancel>>
  /\ UNCHANGED <<hkVars, uiVars>>
  /\ UNCHANGED auxVars

\* A variant whose final test looks at the result only.
MutWorkerFinalIgnoresFlag(r) ==
  /\ wpc[r] = "final"
  /\ wpc' = [wpc EXCEPT ![r] =
               IF Truthy(out[r][Len(out[r])]) THEN "q_destroy" ELSE "elif"]
  /\ UNCHANGED <<config, snapshot, stagelog, op, input, stage, cancelled, dialog, status, idle, out,
                 resp, result_text, posts, sent, shown, dispatched, marshaled,
                 preCancel, retFlag>>
  /\ UNCHANGED <<hkVars, uiVars>>
  /\ UNCHANGED auxVars

\* if not progress_dialog.cancelled and result:
WorkerFinal(r) ==
  /\ wpc[r] = "final"
  /\ wpc' = [wpc EXCEPT ![r] =
               IF ~cancelled[r] /\ Truthy(out[r][Len(out[r])])
               THEN "q_destroy" ELSE "elif"]
  /\ UNCHANGED <<config, snapshot, stagelog, op, input, stage, cancelled, dialog, status, idle, out,
                 resp, result_text, posts, sent, shown, dispatched, marshaled, preCancel,
                 retFlag>>
  /\ UNCHANGED <<hkVars, uiVars>>
  /\ UNCHANGED auxVars

\* A variant in which the worker clears the flag it has read.
MutWorkerElifClearsFlag(r) ==
  /\ wpc[r] = "elif"
  /\ IF cancelled[r]
     THEN IdleAdd(r, Task("destroy", r, "", <<>>))
     ELSE UNCHANGED <<idle, marshaled>>
  /\ cancelled' = [cancelled EXCEPT ![r] = FALSE]
  /\ wpc' = [wpc EXCEPT ![r] = "done"]
  /\ UNCHANGED <<config, snapshot, stagelog, op, input, stage, dialog, status, out, resp,
                 result_text, posts, sent, shown, dispatched, preCancel, retFlag>>
  /\ UNCHANGED <<hkVars, uiVars>>
  /\ UNCHANGED auxVars

\* elif progress_dialog.cancelled: GLib.idle_add(progress_dialog.destroy)
WorkerElif(r) ==
  /\ wpc[r] = "elif"
  /\ IF cancelled[r]
     THEN IdleAdd(r, Task("destroy", r, "", <<>>))
     ELSE UNCHANGED <<idle, marshaled>>
  /\ wpc' = [wpc EXCEPT ![r] = "done"]
  /\ UNCHANGED <<config, snapshot, stagelog, op, input, stage, cancelled, dialog, status, out, resp,
                 result_text, posts, sent, shown, dispatched, preCancel, retFlag>>
  /\ UNCHANGED <<hkVars, uiVars>>
  /\ UNCHANGED auxVars

\* GLib.idle_add(progress_dialog.destroy) of the result branch
WorkerQueueDestroy(r) ==
  /\ wpc[r] = "q_destroy"
  /\ IdleAdd(r, Task("destroy", r, "", <<>>))
  /\ wpc' = [wpc EXCEPT ![r] = "q_show"]
  /\ UNCHANGED <<config, snapshot, stagelog, op, input, stage, cancelled, dialog, status, out, resp,
                 result_text, posts, sent, shown, dispatched, preCancel, retFlag>>
  /\ UNCHANGED <<hkVars, uiVars>>
  /\ UNCHANGED auxVars

\* GLib.idle_add(self.show_result, <title>, result)
WorkerQueueShow(r) ==
  /\ wpc[r] = "q_show"
  /\ IdleAdd(r, Task("show_result", r, ResultTitle(op[r]), out[r][Len(out[r])].s))
  /\ wpc' = [wpc EXCEPT ![r] = "done"]
  /\ UNCHANGED <<config, snapshot, stagelog, op, input, stage, cancelled, dialog, status, out, resp,
                 result_text, posts, sent, shown, dispatched, preCancel, retFlag>>
  /\ UNCHANGED <<hkVars, uiVars>>
  /\ UNCHANGED auxVars

\* ------------------------------------------------------------ HotkeyManager
MaxEvents == 3

\* A variant that looks the whole event state up.
MutLookupMaskAll == {"Shift", "Lock", "Control", "Mod1", "Mod2", "Mod3", "Mod4", "Mod5"}

\* X.ControlMask | X.ShiftMask | X.Mod1Mask | X.Mod4Mask, as a set of bits.
LookupMask == {"Control", "Shift", "Mod1", "Mod4"}

\* XK_1 .. XK_7 are the Latin-1 codes of the digits.
XK(d) == 48 + d

HOTKEYS ==
  << [modifiers |-> {"Control", "Shift"}, keysym |-> XK(1), name |-> "translate_text"],
     [modifiers |-> {"Control", "Shift"}, keysym |-> XK(2), name |-> "explain_text"],
     [modifiers |-> {"Control", "Shift"}, keysym |-> XK(3), name |-> "ocr_translate"],
     [modifiers |-> {"Control", "Shift"}, keysym |-> XK(4), name |-> "explain_image"],
     [modifiers |-> {"Control", "Shift"}, keysym |-> XK(5), name |-> "ocr_explain"],
     [modifiers |-> {"Control", "Shift"}, keysym |-> XK(6), name |-> "query_image"],
     [modifiers |-> {"Control", "Shift"}, keysym |-> XK(7), name |-> "query_text"] >>

Keysyms == {HOTKEYS[i].keysym : i \in 1..Len(HOTKEYS)}

\* display.keysym_to_keycode under three server keymaps: the usual one (the
\* digit row is keycodes 10..16), one whose key 10 carries both XK_1 and XK_2
\* (each resolves to keycode 10), and one without XK_6 and XK_7 (a keysym
\* that is on no key resolves to keycode 0).
StandardKeymap == [ks \in Keysyms |-> ks - 39]
SharedKeyKeymap == [ks \in Keysyms |-> IF ks = XK(2) THEN XK(1) - 39 ELSE ks - 39]
MissingKeysKeymap == [ks \in Keysyms |-> IF ks \in {XK(6), XK(7)} THEN 0 ELSE ks - 39]

Keymaps == {StandardKeymap, SharedKeyKeymap, MissingKeysKeymap}

\* A Python dict as a function; d[key] = val.
EmptyDict == [k \in {} |-> ""]
DictPut(d, key, val) ==
  [k \in DOMAIN d \cup {key} |-> IF k = key THEN val ELSE d[k]]

\* d.get(key): None (here "") when the key is absent.
DictGet(d, key) == IF key \in DOMAIN d THEN d[key] ELSE ""

\* The for loop of HotkeyManager.setup_hotkeys from entry i on: the keycode
\* is looked up, the grab requested, the mapping stored.  When grab_key raises
\* for entry f (f = 0: for none) the exception leaves the loop and the
\* function: the entries from f on are neither grabbed nor stored.
RECURSIVE RegisterFrom(_, _, _, _, _)
RegisterFrom(i, table, km, f, acc) ==
  IF i > Len(table) THEN acc
  ELSE IF i = f THEN [acc EXCEPT !.raised = TRUE]
  ELSE LET key == <<km[table[i].keysym], table[i].modifiers>> IN
       RegisterFrom(i + 1, table, km, f,
                    [map    |-> DictPut(acc.map, key, table[i].name),
                     grabs  |-> Append(acc.grabs, key),
                     raised |-> FALSE])

setup_hotkeys(km, f) ==
  RegisterFrom(1, HOTKEYS, km, f, [map |-> EmptyDict, grabs |-> <<>>, raised |-> FALSE])

\* The entry for which root.grab_key raises, 0 for none.
GrabFailures == 0..Len(HOTKEYS)

\* Key events the display can hand to the client.
KeyEvent(type, detail, state) == [type |-> type, detail |-> detail, state |-> state]

XEvents ==
  { KeyEvent("KeyPress", 10, {"Control", "Shift"}),
    KeyEvent("KeyPress", 11, {"Control", "Shift"}),
    KeyEvent("KeyPress", 10, {"Control", "Shift", "Lock"}),
    KeyEvent("KeyPress", 10, {"Control", "Shift", "Mod1"}),
    KeyEvent("KeyPress", 38, {"Control", "Shift"}),
    KeyEvent("KeyRelease", 10, {"Control", "Shift"}) }

\* The threads start() can create; thread 1 is the one of the first call.
MaxThreads == 2
Threads == 1..MaxThreads

InitHotkeys(km) ==
  /\ keymap = km
  /\ hotkey_map = EmptyDict
  /\ grabs = <<>>
  /\ running = FALSE
  /\ lpc = [t \in Threads |-> "none"]
  /\ xqueue = <<>>
  /\ consumed = <<>>
  /\ invoked = <<>>
  /\ grabRaised = 0

\* LLMAssistant.__init__ reaching setup_hotkeys (lines 947-956), then run():
\* HotkeyManager(self), setup_hotkeys(), start() and Gtk.main().  An
\* exception from setup_hotkeys() is caught by LLMAssistant.setup_hotkeys,
\* which prints a warning: start() is then not called.
AppInit ==
  /\ app = "new"
  /\ \E f \in GrabFailures :
       LET reg == setup_hotkeys(keymap, f) IN
         /\ hotkey_map' = reg.map
         /\ grabs' = reg.grabs
         /\ grabRaised' = f
         /\ IF reg.raised
            THEN UNCHANGED <<running, lpc>>
            ELSE /\ running' = TRUE
                 /\ lpc' = [lpc EXCEPT ![1] = "outer"]
  /\ app' = "main"
  /\ UNCHANGED <<keymap, xqueue, consumed, invoked>>
  /\ UNCHANGED <<pipeVars, uiVars>>
  /\ UNCHANGED auxVars

\* HotkeyManager.start: the flag is set and a new thread is created, whatever
\* the flag was and whether or not a loop thread already exists.
start ==
  /\ app = "main"
  /\ MainFree
  /\ \E t \in Threads :
       /\ lpc[t] = "none"
       /\ \A u \in Threads : u < t => lpc[u] # "none"
       /\ lpc' = [lpc EXCEPT ![t] = "outer"]
  /\ running' = TRUE
  /\ UNCHANGED <<app, keymap, hotkey_map, grabs, xqueue, consumed, invoked, grabRaised>>
  /\ UNCHANGED <<pipeVars, uiVars>>
  /\ UNCHANGED auxVars

\* HotkeyManager.stop
stop ==
  /\ app = "main"
  /\ MainFree
  /\ running' = FALSE
  /\ UNCHANGED <<app, keymap, hotkey_map, grabs, lpc, xqueue, consumed, invoked, grabRaised>>
  /\ UNCHANGED <<pipeVars, uiVars>>
  /\ UNCHANGED auxVars

\* The X server queues a key event for the client.
XDeliver(e) ==
  /\ app \in {"main", "quit"}
  /\ Len(consumed) + Len(xqueue) < MaxEvents
  /\ xqueue' = Append(xqueue, e)
  /\ UNCHANGED <<app, keymap, hotkey_map, grabs, running, lpc, consumed, invoked, grabRaised>>
  /\ UNCHANGED <<pipeVars, uiVars>>
  /\ UNCHANGED auxVars

\* A variant whose loop does not test the flag.
MutLoopOuterIgnoresFlag(t) ==
  /\ lpc[t] = "outer"
  /\ lpc' = [lpc EXCEPT ![t] = "inner"]
  /\ UNCHANGED <<app, keymap, hotkey_map, grabs, running, xqueue, consumed, invoked, grabRaised>>
  /\ UNCHANGED <<pipeVars, uiVars>>
  /\ UNCHANGED auxVars

\* while self.running:
LoopOuter(t) ==
  /\ lpc[t] = "outer"
  /\ lpc' = [lpc EXCEPT ![t] = IF running THEN "inner" ELSE "exited"]
  /\ UNCHANGED <<app, keymap, hotkey_map, grabs, running, xqueue, consumed, invoked, grabRaised>>
  /\ UNCHANGED <<pipeVars, uiVars>>
  /\ UNCHANGED auxVars

\* The callback the loop marshals for an event, "" when there is none:
\* only KeyPress is looked at, the state is masked, the name looked up.
EventCallback(e) ==
  IF e.type = "KeyPress"
  THEN DictGet(hotkey_map, <<e.detail, e.state \cap LookupMask>>)
  ELSE ""

\* An event as recorded once next_event has returned it: the event, and
\* what the application was doing at that moment.
Read(e) == [type |-> e.type, detail |-> e.detail, state |-> e.state, during |-> app]

\* A variant that puts the new idle source in front of the pending ones.
MutLoopInnerPrepends(t) ==
  /\ lpc[t] = "inner"
  /\ IF xqueue = <<>>
     THEN /\ lpc' = [lpc EXCEPT ![t] = "outer"]
          /\ UNCHANGED <<xqueue, consumed, idle>>
     ELSE LET e == Head(xqueue)
              name == EventCallback(e) IN
          /\ xqueue' = Tail(xqueue)
          /\ consumed' = Append(consumed, Read(e))
          /\ idle' = IF name # "" /\ name \in Ops
                     THEN <<Task("callback", 0, name, <<>>)>> \o idle
                     ELSE idle
          /\ UNCHANGED lpc
  /\ UNCHANGED <<app, keymap, hotkey_map, grabs, running, invoked, grabRaised>>
  /\ UNCHANGED uiVars
  /\ UNCHANGED <<config, snapshot, stagelog, op, input, wpc, stage, cancelled, dialog, status, out,
                 resp, result_text, posts, sent, shown, dispatched, marshaled,
                 preCancel, retFlag>>
  /\ UNCHANGED auxVars

\* while self.display.pending_events(): event = self.display.next_event() ...
\* or, with nothing pending, time.sleep(0.01) and back to the outer test.
\* getattr finds each of the seven operation methods on LLMAssistant.
LoopInner(t) ==
  /\ lpc[t] = "inner"
  /\ IF xqueue = <<>>
     THEN /\ lpc' = [lpc EXCEPT ![t] = "outer"]
          /\ UNCHANGED <<xqueue, consumed, idle>>
     ELSE LET e == Head(xqueue)
              name == EventCallback(e) IN
          /\ xqueue' = Tail(xqueue)
          /\ consumed' = Append(consumed, Read(e))
          /\ idle' = IF name # "" /\ name \in Ops
                     THEN Append(idle, Task("callback", 0, name, <<>>))
                     ELSE idle
          /\ UNCHANGED lpc
  /\ UNCHANGED <<app, keymap, hotkey_map, grabs, running, invoked, grabRaised>>
  /\ UNCHANGED uiVars
  /\ UNCHANGED <<config, snapshot, stagelog, op, input, wpc, stage, cancelled, dialog, status, out,
                 resp, result_text, posts, sent, shown, dispatched, marshaled,
                 preCancel, retFlag>>
  /\ UNCHANGED auxVars

\* The exceptions the loop prints while it runs.
MaxErrors == 1

\* A variant in which the exception ends the thread.
MutLoopRaiseEndsThread(t) ==
  /\ lpc[t] = "inner"
  /\ Len(hotkey_errors) < MaxErrors
  /\ hotkey_errors' = Append(hotkey_errors, [thread |-> t, read |-> Len(consumed)])
  /\ lpc' = [lpc EXCEPT ![t] = "exited"]
  /\ UNCHANGED <<app, keymap, hotkey_map, grabs, running, xqueue, consumed, invoked,
                 grabRaised, calls>>
  /\ UNCHANGED <<pipeVars, uiVars>>

\* display.pending_events() or display.next_event() raises (an I/O error of
\* the display connection): no event is returned, `except Exception` prints
\* "Hotkey error: ...", sleeps 0.1 s and the outer test is made again.
LoopRaise(t) ==
  /\ lpc[t] = "inner"
  /\ Len(hotkey_errors) < MaxErrors
  /\ hotkey_errors' = Append(hotkey_errors, [thread |-> t, read |-> Len(consumed)])
  /\ lpc' = [lpc EXCEPT ![t] = "outer"]
  /\ UNCHANGED <<app, keymap, hotkey_map, grabs, running, xqueue, consumed, invoked,
                 grabRaised, calls>>
  /\ UNCHANGED <<pipeVars, uiVars>>

\* LLMAssistant.quit: hotkey_manager.stop() and Gtk.main_quit().
quit ==
  /\ app = "main"
  /\ MainFree
  /\ running' = FALSE
  /\ app' = "quit"
  /\ UNCHANGED <<keymap, hotkey_map, grabs, lpc, xqueue, consumed, invoked, grabRaised>>
  /\ UNCHANGED <<pipeVars, uiVars>>
  /\ UNCHANGED auxVars

\* A variant in which the attached idle sources outlive the main loop.
MutProcessExitKeepsQueue ==
  /\ app = "quit"
  /\ app' = "exited"
  /\ lpc' = [t \in Threads |-> IF lpc[t] \in {"outer", "inner"} THEN "exited" ELSE lpc[t]]
  /\ wpc' = [r \in Runs |-> IF wpc[r] \in {"none", "done", "raised"} THEN wpc[r] ELSE "killed"]
  /\ xqueue' = <<>>
  /\ UNCHANGED <<keymap, hotkey_map, grabs, running, consumed, invoked, grabRaised>>
  /\ UNCHANGED <<config, snapshot, stagelog, op, input, stage, cancelled, dialog, status, out,
                 resp, result_text, posts, sent, shown, dispatched, marshaled,
                 preCancel, retFlag, idle>>
  /\ UNCHANGED uiVars
  /\ UNCHANGED auxVars

\* Gtk.main() has returned: run() returns, the script ends and the process
\* exits.  Every other thread is a daemon thread and ends with it; the idle
\* sources still attached to the main context are never dispatched.
ProcessExit ==
  /\ app = "quit"
  /\ app' = "exited"
  /\ idle' = <<>>
  /\ lpc' = [t \in Threads |-> IF lpc[t] \in {"outer", "inner"} THEN "exited" ELSE lpc[t]]
  /\ wpc' = [r \in Runs |-> IF wpc[r] \in {"none", "done", "raised"} THEN wpc[r] ELSE "killed"]
  /\ xqueue' = <<>>
  /\ UNCHANGED <<keymap, hotkey_map, grabs, running, consumed, invoked, grabRaised>>
  /\ UNCHANGED <<config, snapshot, stagelog, op, input, stage, cancelled, dialog, status, out,
                 resp, result_text, posts, sent, shown, dispatched, marshaled,
                 preCancel, retFlag>>
  /\ UNCHANGED uiVars
  /\ UNCHANGED auxVars

\* ------------------------------------------------------------ specification
\* The pipeline: the application is in Gtk.main with its hotkeys registered
\* under the usual keymap; runs are created, worked and cancelled.
Init ==
  /\ InitPipe
  /\ app = "main"
  /\ keymap = StandardKeymap
  /\ hotkey_map = setup_hotkeys(StandardKeymap, 0).map
  /\ grabs = setup_hotkeys(StandardKeymap, 0).grabs
  /\ grabRaised = 0
  /\ running = TRUE
  /\ lpc = [t \in Threads |-> IF t = 1 THEN "outer" ELSE "none"]
  /\ xqueue = <<>>
  /\ consumed = <<>>
  /\ invoked = <<>>

Next ==
  \/ \E o \in Ops : MenuActivate(o)
  \/ \E i \in 1..MaxTriggers, size \in SelectionSizes : SelectorRelease(i, size)
  \/ \E i \in 1..MaxTriggers : SelectorEscape(i)
  \/ \E i \in 1..MaxTriggers : ConfirmCancel(i)
  \/ \E i \in 1..MaxTriggers : SubmitRejected(i)
  \/ \E r \in Runs, o \in Ops : CreateRun(r, o)
  \/ \E r \in Runs : on_cancel(r)
  \/ IdleDispatch
  \/ \E r \in Runs : WorkerStart(r)
  \/ \E r \in Runs : WorkerPrecheck(r)
  \/ \E r \in Runs : WorkerPost(r, RunStreams)
  \/ \E r \in Runs : WorkerReturn(r)
  \/ \E r \in Runs : WorkerCheck(r)
  \/ \E r \in Runs : WorkerStatus(r)
  \/ \E r \in Runs : WorkerStreamLine(r)
  \/ \E r \in Runs : WorkerFinal(r)
  \/ \E r \in Runs : WorkerElif(r)
  \/ \E r \in Runs : WorkerQueueDestroy(r)
  \/ \E r \in Runs : WorkerQueueShow(r)

Spec == Init /\ [][Next]_vars

\* ------------------------------------------- a single streaming invocation
MaxLines == 3

StreamAlphabet ==
  { DataLine(<<"a", "b">>), DataLine(<<"c", "d">>), DataLine(<<>>), DoneLine,
    Line("blank", <<>>), Line("other", <<>>), Line("badjson", <<>>),
    Line("nochoices", <<>>), Line("nulldelta", <<>>) }

SeqsUpTo(S, n) == UNION {[1..k -> S] : k \in 0..n}

AllStreams == SeqsUpTo(StreamAlphabet, MaxLines)

\* One translate_text run whose streaming call receives any bounded stream.
NextStream ==
  \/ MenuActivate("translate_text")
  \/ CreateRun(1, "translate_text")
  \/ on_cancel(1)
  \/ IdleDispatch
  \/ WorkerStart(1)
  \/ WorkerPost(1, AllStreams)
  \/ WorkerStreamLine(1)
  \/ WorkerFinal(1)
  \/ WorkerElif(1)
  \/ WorkerQueueDestroy(1)
  \/ WorkerQueueShow(1)

SpecStream == Init /\ [][NextStream]_vars

\* ------------------------------------------------------- the hotkey manager
\* From the construction of LLMAssistant under any of the keymaps to quit.
InitHK ==
  /\ InitPipe
  /\ app = "new"
  /\ \E km \in Keymaps : InitHotkeys(km)

NextHK ==
  \/ AppInit
  \/ \E e \in XEvents : XDeliver(e)
  \/ LoopOuter(1)
  \/ LoopInner(1)
  \/ IdleDispatch
  \/ quit
  \/ ProcessExit

SpecHK == InitHK /\ [][NextHK]_vars

\* Once Gtk.main() has returned nothing keeps the main thread from reaching
\* the end of the script: the exit is taken.
SpecHKFair == SpecHK /\ WF_vars(ProcessExit)

\* ------------------------------------------------ start() and stop() calls
\* The application is in Gtk.main with its loop thread running; start() and
\* stop() are then called in any order from the presentation context.
NextStartStop ==
  \/ start
  \/ stop
  \/ \E e \in XEvents : XDeliver(e)
  \/ \E t \in Threads : LoopOuter(t)
  \/ \E t \in Threads : LoopInner(t)
  \/ IdleDispatch

SpecStartStop == Init /\ [][NextStartStop]_vars

\* Each loop thread is a thread of its own that the operating system keeps
\* scheduling: a loop that can take its next step takes it.
SpecStartStopFair ==
  /\ SpecStartStop
  /\ \A t \in Threads : WF_vars(LoopOuter(t)) /\ WF_vars(LoopInner(t))

\* -------------------------------------------- exceptions inside the loop
\* The application is in Gtk.main with its loop thread running; reading the
\* display can raise; stop() is called by quit only.
NextLoopErrors ==
  \/ \E e \in XEvents : XDeliver(e)
  \/ LoopOuter(1)
  \/ LoopInner(1)
  \/ LoopRaise(1)
  \/ IdleDispatch
  \/ quit
  \/ ProcessExit

SpecLoopErrors == Init /\ [][NextLoopErrors]_vars

\* ------------------------------------------------- modifier bits of events
\* KeyPress events of the key of Ctrl+Shift+1 (keycode 10) under the
\* modifier states a user can hold: the chord alone, with CapsLock (Lock)
\* and NumLock (Mod2) on, with Alt (Mod1), with Super (Mod4), without Shift.
MaskEvents ==
  { KeyEvent("KeyPress", 10, {"Control", "Shift"}),
    KeyEvent("KeyPress", 10, {"Control", "Shift", "Lock"}),
    KeyEvent("KeyPress", 10, {"Control", "Shift", "Lock", "Mod2"}),
    KeyEvent("KeyPress", 10, {"Control", "Shift", "Mod1"}),
    KeyEvent("KeyPress", 10, {"Control", "Shift", "Mod4"}),
    KeyEvent("KeyPress", 10, {"Control"}) }

NextMask ==
  \/ \E e \in MaskEvents : XDeliver(e)
  \/ LoopOuter(1)
  \/ LoopInner(1)
  \/ IdleDispatch

SpecMask == Init /\ [][NextMask]_vars

\* ------------------------------------------ call_llm's message preparation
MaxCalls == 2

\* Instruction strings and image arguments call_llm can be given.
Instructions ==
  { <<"Extract all text from this image. Only provide the extracted text.">>,
    <<"Describe what you see in this image in detail. Focus on the main elements, layout, and visual characteristics.">>,
    <<"Translate the following text to ", "English", ":\n\n", "T">>,
    <<>> }

ImageArguments == {PyNone, PyStr(<<"iVBORw0KGgo=">>), PyStr(<<"AAAA">>)}

\* call_llm(model, [{"role": "user", "content": content}], image_base64) up
\* to the request body.
ApplyPrepareMessages(content, image_base64) ==
  /\ Len(calls) < MaxCalls
  /\ calls' = Append(calls, [content |-> content, image_base64 |-> image_base64,
                             message |-> PrepareMessages(content, image_base64)])
  /\ UNCHANGED <<pipeVars, hkVars, uiVars, hotkey_errors>>

NextCallLlm ==
  \E content \in Instructions, image_base64 \in ImageArguments :
    ApplyPrepareMessages(content, image_base64)

SpecCallLlm == Init /\ [][NextCallLlm]_vars

\* ----------------------------------------- settings changed during a run
\* One run of translate_text or ocr_translate while the user toggles the
\* premium model and saves settings.
ConfigOps == {"translate_text", "ocr_translate"}

NextConfig ==
  \/ \E o \in ConfigOps : MenuActivate(o)
  \/ \E size \in SelectionSizes : SelectorRelease(1, size)
  \/ \E o \in ConfigOps : CreateRun(1, o)
  \/ toggle_premium_model
  \/ show_settings
  \/ on_cancel(1)
  \/ IdleDispatch
  \/ WorkerStart(1)
  \/ WorkerPrecheck(1)
  \/ WorkerPost(1, RunStreams)
  \/ WorkerReturn(1)
  \/ WorkerCheck(1)
  \/ WorkerStatus(1)
  \/ WorkerStreamLine(1)
  \/ WorkerFinal(1)
  \/ WorkerElif(1)
  \/ WorkerQueueDestroy(1)
  \/ WorkerQueueShow(1)

SpecConfig == Init /\ [][NextConfig]_vars

\* ------------------------------------------------------ two concurrent runs
\* The input dialogs of translate_text and explain_text are both open (the
\* clipboard held text at both calls); each is submitted and the two runs
\* proceed side by side.
InitTwoRuns ==
  /\ InitRuns
  /\ confirm = <<"translate_text", "explain_text">>
  /\ oplog = << [op |-> "translate_text", clip |-> "text", note |-> "", opens |-> TRUE],
                [op |-> "explain_text", clip |-> "text", note |-> "", opens |-> TRUE] >>
  /\ selectors = <<>>
  /\ shots = <<>>
  /\ uilog = <<>>
  /\ app = "main"
  /\ keymap = StandardKeymap
  /\ hotkey_map = setup_hotkeys(StandardKeymap, 0).map
  /\ grabs = setup_hotkeys(StandardKeymap, 0).grabs
  /\ grabRaised = 0
  /\ running = TRUE
  /\ lpc = [t \in Threads |-> IF t = 1 THEN "outer" ELSE "none"]
  /\ xqueue = <<>>
  /\ consumed = <<>>
  /\ invoked = <<>>

NextTwoRuns ==
  \/ \E r \in Runs, o \in TextOps : CreateRun(r, o)
  \/ \E r \in Runs : on_cancel(r)
  \/ IdleDispatch
  \/ \E r \in Runs : WorkerStart(r)
  \/ \E r \in Runs : WorkerPost(r, RunStreams)
  \/ \E r \in Runs : WorkerStreamLine(r)
  \/ \E r \in Runs : WorkerFinal(r)
  \/ \E r \in Runs : WorkerElif(r)
  \/ \E r \in Runs : WorkerQueueDestroy(r)
  \/ \E r \in Runs : WorkerQueueShow(r)

SpecTwoRuns == InitTwoRuns /\ [][NextTwoRuns]_vars

\* ==================================================================== claims
Last(q) == q[Len(q)]
NonStatus(k) == k # "update_status"
PendingFor(r) == \E i \in 1..Len(idle) : idle[i].run = r

\* The worker has finished and the main loop has drained what it marshaled.
Quiescent(r) == wpc[r] = "done" /\ ~PendingFor(r)

\* A returned value that is the error string of a failed call.
StageFailed(v) ==
  v.t = "str" /\ v.s # <<>> /\ v.s[1] \in {"Error: ", "Error: Connection timeout"}

\* C1: a run whose Cancel button was pressed before show_result executed
\* never has show_result executed for it, and show_result executes at most
\* once per run.
C1_CancelledRunNeverShown ==
  \A r \in Runs :
    /\ Len(shown[r]) <= 1
    /\ \A i \in 1..Len(shown[r]) : ~shown[r][i].cancelled

\* C2: when the flag is set by the time the final stage call returns, the
\* worker marshals no show_result for the run, and what it marshals after its
\* progress updates is the single destroy of the progress dialog.
C2_LateResultDiscarded ==
  \A r \in Runs :
    retFlag[r] = "set" =>
      /\ \A i \in 1..Len(marshaled[r]) : marshaled[r][i] # "show_result"
      /\ wpc[r] = "done" => SelectSeq(marshaled[r], NonStatus) = <<"destroy">>

\* C2 witness: the flag was set while the final call was in flight, the call
\* then returned a successful text, and the worker has finished.
C2_Witness ==
  \E r \in Runs :
    /\ retFlag[r] = "set"
    /\ wpc[r] = "done"
    /\ Last(out[r]) \in {PyStr(Hello), PyStr(<<"a", "b", "c", "d">>)}

\* C3: once a started run's worker has finished and the presentation context
\* has drained its queue, exactly one terminal outcome has been delivered to
\* the presentation context for the run: a result (or failure message)
\* window, or the teardown of the progress dialog without a result.
Has(q, k) == \E i \in 1..Len(q) : q[i] = k

Outcomes(r) ==
  Len(shown[r])
  + (IF Has(dispatched[r], "destroy") /\ ~Has(marshaled[r], "show_result")
     THEN 1 ELSE 0)

C3_OutcomeExactlyOnce ==
  \A r \in Runs : Quiescent(r) => Outcomes(r) = 1

\* C4: a run cancelled before its worker thread takes its first step issues
\* no network request.
C4_PreCancelNoNetwork ==
  \A r \in Runs : preCancel[r] = "set" => posts[r] = <<>>

\* C5: after a stage call of a multi-stage run has failed, no later stage
\* issues a network call and no result is marshaled from the later stages.
C5_FailureSkipsLaterStages ==
  \A r \in Runs :
    \A i \in 1..Len(out[r]) :
      (i < NStages(r) /\ StageFailed(out[r][i])) =>
        /\ Len(posts[r]) <= i
        /\ \A j \in 1..Len(marshaled[r]) : marshaled[r][j] # "show_result"

\* C6: the text returned by a stage is embedded symbol for symbol in the
\* request of the next stage (after the prompt's three leading symbols in
\* ocr_translate / ocr_explain; after the heading, and after the separator
\* that follows the OCR text, in query_image), the text shown is the text the
\* last stage call returned, and with OCR returning "hello" and the echo stub
\* the text shown is "T:hello".
ThreadedAt(content, from, v) ==
  v.t = "str" =>
    /\ from + Len(v.s) - 1 <= Len(content)
    /\ SubSeq(content, from, from + Len(v.s) - 1) = v.s

C6_ThreadedVerbatim ==
  \A r \in Runs :
    /\ (op[r] \in {"ocr_translate", "ocr_explain"} /\ Len(posts[r]) >= 2) =>
         /\ ThreadedAt(posts[r][2].content, 4, out[r][1])
         /\ out[r][1].t = "str" => Len(posts[r][2].content) = 3 + Len(out[r][1].s)
    /\ (op[r] = "query_image" /\ Len(posts[r]) >= 3) =>
         /\ ThreadedAt(posts[r][3].content, 2, out[r][1])
         /\ ThreadedAt(posts[r][3].content, 3 + Len(Format(out[r][1])), out[r][2])
    /\ \A i \in 1..Len(shown[r]) :
         /\ Len(out[r]) = NStages(r)
         /\ shown[r][i].text = Last(out[r]).s
    /\ ( /\ op[r] = "ocr_translate"
         /\ shown[r] # <<>>
         /\ out[r][1] = PyStr(Hello)
         /\ sent[r] = Response(EchoStream(posts[r][2])) )
       => shown[r][1].text = <<"T", ":">> \o Hello

\* C6 witness: OCR returned "hello", the translate stage echoed it behind
\* "T:", and the result window shows "T:hello".
C6_Witness ==
  \E r \in Runs :
    /\ op[r] = "ocr_translate"
    /\ Len(out[r]) = 2
    /\ out[r][1] = PyStr(Hello)
    /\ shown[r] # <<>>
    /\ shown[r][1].text = <<"T", ":", "h", "e", "l", "l", "o">>

\* C6 witness (no trimming): a text with surrounding whitespace reached the
\* second stage of a run.
C6_WitnessPadded ==
  \E r \in Runs :
    /\ op[r] = "query_image"
    /\ Len(posts[r]) = 3
    /\ out[r][1] = PyStr(Padded)
    /\ out[r][2] = PyStr(Padded)

\* ---- streaming result (C7)
\* The fragments of the data frames before the first [DONE], concatenated.
RECURSIVE Concatenation(_)
Concatenation(ls) ==
  IF ls = <<>> \/ Head(ls).kind = "done" THEN <<>>
  ELSE (IF Head(ls).kind = "data" THEN Head(ls).content ELSE <<>>)
       \o Concatenation(Tail(ls))

\* Frames of the wire contract and lines the parser passes over; a frame of
\* valid JSON with an unexpected shape is outside C7.
InContract(ls) == \A i \in 1..Len(ls) : ls[i].kind # "nulldelta"

Returned(r) == Len(out[r]) = 1
Uncancelled(r) == Returned(r) /\ retFlag[r] = "clear"

EventKey(e) == <<e.detail, e.state \cap LookupMask>>
Bound(e) == e.type = "KeyPress" /\ EventKey(e) \in DOMAIN hotkey_map

\* The bound actions of the events read so far, in the order read.
RECURSIVE Detected(_)
Detected(es) ==
  IF es = <<>> THEN <<>>
  ELSE (IF Bound(Head(es)) THEN <<hotkey_map[EventKey(Head(es))]>> ELSE <<>>)
       \o Detected(Tail(es))

IsPrefix(p, q) == Len(p) <= Len(q) /\ SubSeq(q, 1, Len(p)) = p

Count(q, x) == Cardinality({i \in 1..Len(q) : q[i] = x})

PendingCallbacks(n) ==
  Cardinality({i \in 1..Len(idle) : idle[i].kind = "callback" /\ idle[i].title = n})

\* C8: the presentation context calls the actions in detection order: the
\* actions called so far are the first ones detected, in the order their
\* events were read.
C8_DetectionOrder == IsPrefix(invoked, Detected(consumed))

\* C8 witness: two chords bound to different actions were read and both
\* actions have been called.
C8_Witness ==
  /\ Len(invoked) = 2
  /\ invoked[1] # invoked[2]
  /\ invoked = Detected(consumed)

\* C9: while the main loop runs, every action has been called, or is queued
\* to be called, once for each event read that is bound to it, and never for
\* another event.
C9_OneInvocationPerEvent ==
  app = "main" =>
    \A n \in Ops :
      Count(invoked, n) + PendingCallbacks(n) = Count(Detected(consumed), n)

\* C9 witness: a bound KeyPress and an unbound KeyPress were read, the queue
\* is drained, and exactly the bound one's action was called.
C9_Witness ==
  /\ app = "main"
  /\ idle = <<>>
  /\ Len(invoked) = 1
  /\ \E i, j \in 1..Len(consumed) :
       /\ Bound(consumed[i])
       /\ consumed[j].type = "KeyPress" /\ ~Bound(consumed[j])

\* C10: when two entries of the registered table resolve to the same
\* (keycode, modifiers) pair, no grab is requested for that pair and the
\* binding map has no entry for it.
TableKey(i) == <<keymap[HOTKEYS[i].keysym], HOTKEYS[i].modifiers>>

C10_DuplicateRejected ==
  app # "new" =>
    \A i, j \in 1..Len(HOTKEYS) :
      (i # j /\ TableKey(i) = TableKey(j)) =>
        /\ TableKey(i) \notin DOMAIN hotkey_map
        /\ \A g \in 1..Len(grabs) : grabs[g] # TableKey(i)


\* ---- registration failure (C11)
\* C11: when grab_key raised for one entry of the table, every other entry
\* is in the binding map and the detection loop has been started.
C11_FailureIsolated ==
  (app # "new" /\ grabRaised # 0) =>
    /\ \A i \in 1..Len(HOTKEYS) :
         i # grabRaised => TableKey(i) \in DOMAIN hotkey_map
    /\ lpc[1] # "none"

\* ---- stage calls (C12, C13)
\* C12: no stage call lets an exception out (no worker thread is ended by
\* one), and a buffered call that met a timeout, a non-success status or a
\* malformed body returned the error string to its caller.
C12_StageCallsNeverRaise ==
  \A r \in Runs :
    /\ wpc[r] # "raised"
    /\ Len(stagelog[r]) = Len(out[r])
    /\ \A i \in 1..Len(stagelog[r]) :
         (stagelog[r][i].fault # "ok" /\ IsBuffered(StageList(op[r])[i]))
           => StageFailed(out[r][i])

\* C12 witness: a buffered call met a non-success status and returned the
\* error string, the streaming call after it met a timeout, and the worker
\* went on to its end.
C12_Witness ==
  \E r \in Runs :
    /\ Len(stagelog[r]) = 2
    /\ stagelog[r][1].fault = "HTTPError"
    /\ out[r][1] = PyStr(<<"Error: ", "HTTPError">>)
    /\ stagelog[r][2].fault = "Timeout"
    /\ wpc[r] = "done"

\* C13: when the flag was set by the time the call of stage i returned, no
\* network call is issued for a later stage.
C13_CancelStopsLaterStages ==
  \A r \in Runs :
    \A i \in 1..Len(stagelog[r]) :
      stagelog[r][i].flag = "set" => Len(posts[r]) <= i

\* C13 witness: the flag was set while the first stage of a three-stage run
\* was in flight; the worker has ended having issued that one call.
C13_Witness ==
  \E r \in Runs :
    /\ op[r] = "query_image"
    /\ Len(stagelog[r]) = 1
    /\ stagelog[r][1].flag = "set"
    /\ wpc[r] = "done"
    /\ Len(posts[r]) = 1

\* ---- progress updates (C14)
\* The text of the oldest update_status of run r that is still queued.
RECURSIVE FirstUpdate(_, _)
FirstUpdate(q, r) ==
  IF q = <<>> THEN <<>>
  ELSE IF Head(q).kind = "update_status" /\ Head(q).run = r THEN Head(q).text
  ELSE FirstUpdate(Tail(q), r)

\* The step executes an update_status of run r.
UpdateExecuted(r) ==
  /\ Len(dispatched'[r]) > Len(dispatched[r])
  /\ Last(dispatched'[r]) = "update_status"

\* C14: every update_status executed for a run is the oldest one its worker
\* produced that has not been executed yet, and is executed while the run's
\* progress dialog is open and before its teardown or result was delivered.
C14_UpdatesInOrderNotAfterTerminal ==
  [][\A r \in Runs :
       UpdateExecuted(r) =>
         /\ status'[r] = FirstUpdate(idle, r)
         /\ dialog[r] = "open"
         /\ ~Has(dispatched[r], "destroy")
         /\ ~Has(dispatched[r], "show_result")]_vars

\* ---- start and stop (C15)
LiveLoops == {t \in Threads : lpc[t] \in {"outer", "inner"}}

\* C15: whatever start() and stop() calls were made, at most one detection
\* loop is consuming the event stream.
C15_AtMostOneLoop == Cardinality(LiveLoops) <= 1

\* ---- shutdown (C16)
\* The event was read after quit had ended the main loop.
Late(e) == e.during # "main"

\* C16: the action of a bound KeyPress read after quit is never called, and
\* whatever is queued in the main context when quit is called does not stay
\* queued for ever.
C16_LateChordDropped ==
  /\ [](\A i \in 1..Len(consumed) :
          (Late(consumed[i]) /\ Bound(consumed[i]))
            => Len(invoked) < Len(Detected(SubSeq(consumed, 1, i))))
  /\ (app = "quit") ~> (idle = <<>>)

\* C16 witness: a bound KeyPress was read after quit, the process has ended
\* and the action was not called.
C16_Witness ==
  /\ app = "exited"
  /\ \E i \in 1..Len(consumed) : Late(consumed[i]) /\ Bound(consumed[i])
  /\ Len(invoked) < Len(Detected(consumed))

\* ---- auto-repeat (C17)
\* The bound actions of the press edges among the events read: a KeyPress
\* of a key counts when the key is not held, that is when no KeyPress of it
\* was read since its last KeyRelease.
RECURSIVE EdgeDetected(_, _)
EdgeDetected(es, held) ==
  IF es = <<>> THEN <<>>
  ELSE LET e == Head(es) IN
       IF e.type = "KeyPress"
       THEN (IF e.detail \notin held /\ Bound(e)
             THEN <<hotkey_map[EventKey(e)]>> ELSE <<>>)
            \o EdgeDetected(Tail(es), held \cup {e.detail})
       ELSE EdgeDetected(Tail(es), held \ {e.detail})

\* C17: every action has been called, or is queued to be called, once for
\* each press edge of a chord bound to it, and not for the further KeyPress
\* events of a held key nor for a KeyRelease.
C17_OnePerPhysicalPress ==
  app = "main" =>
    \A n \in Ops :
      Count(invoked, n) + PendingCallbacks(n) = Count(EdgeDetected(consumed, {}), n)

\* ---- clipboard without text (C18)
RunsCreated == Cardinality({r \in Runs : op[r] # "none"})
InputsOpened == Cardinality({i \in 1..Len(oplog) : oplog[i].opens})

\* C18: a text operation called with a clipboard that holds no text shows a
\* notification and opens no input dialog; no progress dialog, worker or
\* network call exists without an input dialog that was opened and submitted.
C18_NoTextAborts ==
  /\ \A i \in 1..Len(oplog) :
       (oplog[i].op \in TextOps /\ oplog[i].clip # "text")
         => oplog[i].note # "" /\ ~oplog[i].opens
  /\ RunsCreated + Len(confirm) <= InputsOpened
  /\ \A r \in Runs :
       op[r] = "none" => dialog[r] = "none" /\ wpc[r] = "none" /\ posts[r] = <<>>

\* C18 witness: translate_text was called with an image on the clipboard:
\* the notification was shown, and there is no dialog, run or request.
C18_Witness ==
  /\ oplog = << [op |-> "translate_text", clip |-> "image",
                 note |-> "Clipboard contains an image, not text", opens |-> FALSE] >>
  /\ confirm = <<>>
  /\ \A r \in Runs : op[r] = "none" /\ posts[r] = <<>>

\* ---- the cancellation flag (C19)
\* C19: the flag of every run is false at first, never goes from true to
\* false, and changes only in a step of the Cancel handler, which destroys
\* the open dialog and is no step of a worker.
C19_FlagMonotonic ==
  /\ \A r \in Runs : ~cancelled[r]
  /\ [][\A r \in Runs :
          /\ cancelled[r] => cancelled'[r]
          /\ cancelled'[r] # cancelled[r] =>
               /\ dialog[r] = "open" /\ dialog'[r] = "destroyed"
               /\ wpc' = wpc /\ marshaled' = marshaled /\ posts' = posts]_vars

\* C19 witness: a run was cancelled, its worker then ran to its end and the
\* teardown it marshaled was executed; the flag is still set.
C19_Witness ==
  \E r \in Runs :
    /\ cancelled[r]
    /\ wpc[r] = "done"
    /\ Has(dispatched[r], "destroy")

\* ---- interactive state (C20)
\* The step is one of a worker thread / of the detection loop thread.
WorkerStep ==
  \E r \in Runs :
    /\ wpc[r] # "none"
    /\ \/ wpc'[r] # wpc[r]
       \/ resp'[r] # resp[r]
       \/ posts'[r] # posts[r]
       \/ marshaled'[r] # marshaled[r]

LoopStep == lpc' # lpc \/ consumed' # consumed

InFlight(r) == wpc[r] \in {"wait", "stream"}

\* C21: while a stage call of a run is in flight the call is not executing
\* in the main thread: the main loop can take a click on the run's Cancel
\* button and can dispatch a marshaled task.
C21_CallsOffMainThread ==
  \A r \in Runs :
    (InFlight(r) /\ app = "main") =>
      /\ dialog[r] = "open" => ENABLED on_cancel(r)
      /\ idle # <<>> => ENABLED IdleDispatch

\* C21 witness: the Cancel click of a run was handled while its buffered
\* call was in flight.
C21_Witness ==
  \E r \in Runs : wpc[r] = "wait" /\ cancelled[r] /\ dialog[r] = "destroyed"

\* ---- transport failures (C22)
TransportFaults == {"Timeout", "HTTPError"}

\* C22: after a transport failure in a stage call of a run no later stage of
\* the run issues a call, and once the run has ended uncancelled exactly one
\* window was shown for it, carrying the failure message.
C22_FailureAbortsRunWithOneMessage ==
  \A r \in Runs :
    \A i \in 1..Len(stagelog[r]) :
      stagelog[r][i].fault \in TransportFaults =>
        /\ Len(posts[r]) <= i
        /\ (Quiescent(r) /\ ~cancelled[r]) =>
             /\ Len(shown[r]) = 1
             /\ StageFailed(PyStr(shown[r][1].text))

\* ---- malformed frames (C23)
Malformed(l) == l.kind \in {"badjson", "nulldelta"}
NotMalformed(l) == ~Malformed(l)

\* What the frames ls yield when every one of them is well formed.
StreamResult(ls) ==
  IF Concatenation(ls) # <<>> THEN PyStr(Concatenation(ls))
  ELSE PyStr(<<"No response received">>)

\* C23: the result of an uncancelled streaming invocation is the result of
\* the frames received with the malformed ones (payload that is not JSON,
\* JSON of an unexpected shape) left out.
C23_MalformedFramesSkipped ==
  (Uncancelled(1) /\ sent[1].got)
    => out[1][1] = StreamResult(SelectSeq(sent[1].lines, NotMalformed))

\* ---- cancellation during a stream (C24)
\* C24: a worker that receives a line of its stream after the flag was set
\* returns None from the invocation at that line and marshals no progress
\* update; a run whose streaming invocation returned None is never shown.
C24_CancelAbandonsStream ==
  /\ [](\A r \in Runs :
          (sent[r].got /\ Len(out[r]) = Len(posts[r]) /\ Len(out[r]) > 0
             /\ Last(out[r]) = PyNone)
            => shown[r] = <<>> /\ ~Has(marshaled[r], "show_result"))
  /\ [][\A r \in Runs :
          ( /\ wpc[r] = "stream" /\ cancelled[r] /\ resp[r] # <<>>
            /\ (wpc'[r] # wpc[r] \/ resp'[r] # resp[r]) )
          => /\ wpc'[r] = "final"
             /\ Len(out'[r]) = Len(out[r]) + 1
             /\ Last(out'[r]) = PyNone
             /\ marshaled'[r] = marshaled[r]]_vars

\* C24 witness: the flag was set after a fragment had been accumulated; the
\* invocation returned None, the worker has ended and nothing was shown.
C24_Witness ==
  /\ sent[1].got
  /\ result_text[1] # <<>>
  /\ Len(out[1]) = 1 /\ out[1][1] = PyNone
  /\ wpc[1] = "done"
  /\ shown[1] = <<>>

\* ---- configuration (C25)
\* C25: every request of a run is the request its stage builds from the
\* configuration as it was when the run was created.
C25_SnapshotUsed ==
  \A r \in Runs :
    \A i \in 1..Len(posts[r]) :
      posts[r][i] = Request(op[r], StageList(op[r])[i], snapshot[r], input[r],
                            SubSeq(out[r], 1, i - 1))

\* ---- independent runs (C26)
RunState(r) ==
  << op[r], input[r], wpc[r], stage[r], cancelled[r], dialog[r], status[r], out[r],
     resp[r], result_text[r], posts[r], shown[r], marshaled[r] >>

\* C26: no step changes the flag, dialog, stage position, stage outputs,
\* network calls or shown result of more than one run, and what is shown
\* for a run is the run's own last stage output under the run's own title.
C26_RunsIndependent ==
  /\ [](\A r \in Runs :
          \A i \in 1..Len(shown[r]) :
            /\ Len(out[r]) = NStages(r)
            /\ shown[r][i].text = Last(out[r]).s
            /\ shown[r][i].title = ResultTitle(op[r]))
  /\ [][\A a, b \in Runs :
          (a # b /\ RunState(a)' # RunState(a)) => RunState(b)' = RunState(b)]_vars

\* C26 witness: of two runs side by side the first was cancelled and showed
\* nothing, the second was not and showed its own result.
C26_Witness ==
  /\ cancelled[1] /\ wpc[1] = "done" /\ shown[1] = <<>>
  /\ ~cancelled[2] /\ wpc[2] = "done"
  /\ Len(shown[2]) = 1
  /\ shown[2][1].title = ResultTitle(op[2])
  /\ op[1] # op[2]

\* ---- confirmation (C27)
CountUi(k) == Cardinality({i \in 1..Len(uilog) : uilog[i].kind = k})

\* Releases of a selection larger than 10 pixels in width and in height.
LargeSelections ==
  Cardinality({i \in 1..Len(uilog) :
                 /\ uilog[i].kind = "release"
                 /\ uilog[i].size[1] > 10 /\ uilog[i].size[2] > 10})

TextInputsOpened ==
  Cardinality({i \in 1..Len(oplog) : oplog[i].opens /\ oplog[i].op \in TextOps})

SelectorsOpened ==
  Cardinality({i \in 1..Len(oplog) : oplog[i].opens /\ oplog[i].op \in ImageOps})

\* C27: there are as many runs as submitted input dialogs; every input
\* dialog comes from a text operation or from a selection larger than the
\* minimum, and is open, cancelled or submitted; every selector is open or
\* was left by a release or by Escape.  So a cancelled dialog, an Escape and
\* a small selection lead to no progress dialog, worker or network call.
C27_NoRunWithoutConfirmation ==
  /\ RunsCreated = CountUi("submit")
  /\ CountUi("submit") + CountUi("cancel") + Len(confirm)
       = LargeSelections + TextInputsOpened
  /\ CountUi("release") + CountUi("escape") + Len(selectors) = SelectorsOpened
  /\ \A r \in Runs :
       op[r] = "none" => dialog[r] = "none" /\ wpc[r] = "none" /\ posts[r] = <<>>

\* C27 witness: a selection 10 pixels wide was released: no dialog is open,
\* and no run, worker or request exists.
C27_Witness ==
  /\ Len(uilog) = 1
  /\ uilog[1].kind = "release" /\ uilog[1].size = <<10, 50>>
  /\ confirm = <<>> /\ selectors = <<>>
  /\ \A r \in Runs : op[r] = "none" /\ wpc[r] = "none" /\ posts[r] = <<>>

\* ---- screenshots (C28)
\* C28: every screenshot whose dialog or callback is done with it has been
\* closed.
C28_ScreenshotsReleased ==
  \A k \in 1..Len(shots) : shots[k].owner = "ended" => shots[k].closed

\* ---- the binding map (C29)
\* C29: once the whole table is registered the binding map has one entry
\* for each of the seven operations, and the map is never assigned again.
C29_SevenDistinctBindings ==
  /\ []((app # "new" /\ grabRaised = 0) =>
          /\ Cardinality(DOMAIN hotkey_map) = Len(HOTKEYS)
          /\ {hotkey_map[k] : k \in DOMAIN hotkey_map} = Ops)
  /\ [][app # "new" => hotkey_map' = hotkey_map]_vars

\* ---- stage order (C30)
BufferedCall(k) == [stage |-> k, stream |-> FALSE]
StreamingCall(k) == [stage |-> k, stream |-> TRUE]

\* The calls each operation is to issue, in order.
ExpectedCalls(o) ==
  CASE o = "translate_text" -> <<StreamingCall("translate")>>
    [] o = "explain_text"   -> <<StreamingCall("explain")>>
    [] o = "query_text"     -> <<StreamingCall("query_text")>>
    [] o = "explain_image"  -> <<BufferedCall("explain_image")>>
    [] o = "ocr_translate"  -> <<BufferedCall("ocr"), StreamingCall("ocr_translate")>>
    [] o = "ocr_explain"    -> <<BufferedCall("ocr"), StreamingCall("ocr_explain")>>
    [] o = "query_image"    -> <<BufferedCall("ocr"), BufferedCall("vision"),
                                 StreamingCall("combine")>>

\* C30: the calls a run has issued are the first calls of its operation's
\* list, each once and in the list's order.
C30_StagesInOrderOnce ==
  \A r \in Runs :
    op[r] # "none" =>
      /\ Len(posts[r]) <= Len(ExpectedCalls(op[r]))
      /\ \A i \in 1..Len(posts[r]) :
           /\ posts[r][i].stage = ExpectedCalls(op[r])[i].stage
           /\ posts[r][i].stream = ExpectedCalls(op[r])[i].stream

\* C30 witness: a query_image run has issued its three calls and ended.
C30_Witness ==
  \E r \in Runs :
    /\ op[r] = "query_image"
    /\ Len(posts[r]) = 3
    /\ wpc[r] = "done"


\* ---- image payloads (C31)
\* C31: call_llm given an image payload sends as content the two-element
\* list of the text part with the instruction unchanged and the image_url
\* part with the data:image/png;base64 URL of the payload; given none it
\* sends the instruction string itself.
C31_ImageEmbeddedAsSecondPart ==
  \A i \in 1..Len(calls) :
    LET c == calls[i] IN
      IF c.image_base64 # PyNone
      THEN /\ c.message.t = "list"
           /\ Len(c.message.parts) = 2
           /\ c.message.parts[1] = [type |-> "text", value |-> c.content]
           /\ c.message.parts[2] =
                [type |-> "image_url",
                 value |-> <<"data:image/png;base64,">> \o c.image_base64.s]
      ELSE c.message.t = "str" /\ c.message.s = c.content

\* C31 witness: one call with an image payload and one without.
C31_Witness ==
  /\ Len(calls) = 2
  /\ calls[1].image_base64 # PyNone /\ calls[1].content # <<>>
  /\ calls[2].image_base64 = PyNone /\ calls[2].content # <<>>


\* ---- the progress dialog of a finished run (C32)
DestroyQueued(r) ==
  \E i \in 1..Len(idle) : idle[i].kind = "destroy" /\ idle[i].run = r

\* C32: in no state has the worker of a run finished while the user has not
\* cancelled, the run's progress dialog is open and no destroy is queued
\* for it.
C32_DialogDestroyed ==
  \A r \in Runs :
    ~( /\ wpc[r] = "done"
       /\ ~cancelled[r]
       /\ dialog[r] = "open"
       /\ ~DestroyQueued(r) )


\* ---- modifier bits (C33)
\* The event is a KeyPress of a bound key whose Control, Shift, Mod1 and
\* Mod4 bits are exactly Control and Shift.
ChordPressed(e) ==
  /\ e.type = "KeyPress"
  /\ <<e.detail, {"Control", "Shift"}>> \in DOMAIN hotkey_map
  /\ e.state \cap {"Control", "Shift", "Mod1", "Mod4"} = {"Control", "Shift"}

RECURSIVE ChordActions(_)
ChordActions(es) ==
  IF es = <<>> THEN <<>>
  ELSE (IF ChordPressed(Head(es))
        THEN <<hotkey_map[<<Head(es).detail, {"Control", "Shift"}>>]>> ELSE <<>>)
       \o ChordActions(Tail(es))

RECURSIVE QueuedCallbacks(_)
QueuedCallbacks(q) ==
  IF q = <<>> THEN <<>>
  ELSE (IF Head(q).kind = "callback" THEN <<Head(q).title>> ELSE <<>>)
       \o QueuedCallbacks(Tail(q))

\* C33: the actions called or queued are, in order, those of the events
\* read that are a KeyPress of a bound key with exactly Control and Shift
\* among the Control, Shift, Mod1 and Mod4 bits: lock bits do not prevent a
\* trigger, an added Mod1 or Mod4 does.
C33_LookupUsesFourBits ==
  app = "main" => invoked \o QueuedCallbacks(idle) = ChordActions(consumed)

\* C33 witness: the key was read with CapsLock and NumLock on, with Alt and
\* with Super; only the first press called the action.
C33_Witness ==
  /\ Len(consumed) = 3
  /\ consumed[1].state = {"Control", "Shift", "Lock", "Mod2"}
  /\ consumed[2].state = {"Control", "Shift", "Mod1"}
  /\ consumed[3].state = {"Control", "Shift", "Mod4"}
  /\ invoked = <<"translate_text">>
  /\ idle = <<>>


\* ---- exceptions inside the detection loop (C34)
\* Bound events read after the k-th printed exception.
ReadAfterError(k) ==
  {i \in 1..Len(consumed) : i > hotkey_errors[k].read /\ Bound(consumed[i])}

\* C34: the loop thread has not exited unless quit has called stop(), and
\* while the main loop runs every bound KeyPress read after an exception
\* has had its action called or queued.
C34_ExceptionKeepsLoop ==
  /\ lpc[1] = "exited" => app \in {"quit", "exited"}
  /\ (app = "main" /\ hotkey_errors # <<>>) =>
       /\ lpc[1] \in {"outer", "inner"}
       /\ Len(invoked) + Len(QueuedCallbacks(idle)) = Len(Detected(consumed))

\* C34 witness: an exception was printed, a bound KeyPress was read after
\* it and its action was called; the loop is still running.
C34_Witness ==
  /\ app = "main"
  /\ running
  /\ hotkey_errors # <<>>
  /\ ReadAfterError(1) # {}
  /\ hotkey_errors[1].read = 0
  /\ Len(invoked) = 1
  /\ lpc[1] \in {"outer", "inner"}


\* ---- the loop after stop() (C35)
Marshaled == Len(invoked) + Len(QueuedCallbacks(idle))

\* C35: whenever the flag is clear, either start() sets it again or every
\* loop thread comes to its end; while no loop thread is alive no action is
\* marshaled.
C35_StoppedLoopExits ==
  /\ (~running) ~> (running \/ LiveLoops = {})
  /\ [][LiveLoops = {} => Marshaled' = Marshaled]_vars

\* C35 witness: after stop() the loop thread read the pending events and
\* came to its end.
C35_Witness ==
  /\ ~running
  /\ lpc[1] = "exited"
  /\ LiveLoops = {}
  /\ consumed # <<>>
  /\ xqueue = <<>>


\* ---- empty queries (C36)
QueryOps == {"query_text", "query_image"}

\* C36: the query of every run of a query operation is non-empty after
\* trimming; there are as many runs as accepted submits; a submit answered
\* with the warning leaves the dialog open and creates no run, progress
\* dialog, worker or network call.
C36_QueryRunsNeedQuery ==
  /\ [](\A r \in Runs :
          op[r] \in QueryOps => RStrip(LStrip(input[r].query)) # <<>>)
  /\ [](RunsCreated = CountUi("submit"))
  /\ [][CountUi("warning")' > CountUi("warning") =>
          /\ confirm' = confirm
          /\ op' = op /\ dialog' = dialog /\ wpc' = wpc /\ posts' = posts]_vars

\* C36 witness: a query dialog was submitted empty and answered with the
\* warning, then submitted with a question: one run exists.
C36_Witness ==
  /\ \E i, j \in 1..Len(uilog) :
       /\ i < j
       /\ uilog[i].kind = "warning" /\ uilog[j].kind = "submit"
       /\ uilog[i].op = uilog[j].op
  /\ RunsCreated = 1
  /\ op[1] \in QueryOps
  /\ input[1].query # <<>>
  /\ posts[1] # <<>>

=============================================================================
